---- MODULE Spec2Model ----
(***************************************************************************)
(* A model of the proxy server of query-db-with-ai (server.js, the file    *)
(* src/unnamed/part_000 from line 99 on): the connection registry (pools,  *)
(* mongoClients), validateQuery, parseMongoQuery, withTimeout and the      *)
(* handlers of POST /api/query and POST /api/schema.                       *)
(*                                                                         *)
(* A handler is an async function: the code between two awaits runs        *)
(* without interruption on the single event-loop thread, so each action    *)
(* below is one such run, from the event that resumes the handler (the     *)
(* request arriving, a driver promise settling, a timer firing) to its     *)
(* next await on the driver or to the response.  The database drivers are  *)
(* the environment: what a driver call settles with is chosen by \E.       *)
(***************************************************************************)
EXTENDS Integers, Sequences, FiniteSets, TLC

\* ------------------------------------------------------------- bounds
\* Handler runs that may be in flight at the same time.
MaxRequests == 2
\* Pools and clients constructed in one behaviour.
MaxHandles == 2
\* Pools and clients constructed in the runs that end with a shutdown
MaxShutdownHandles == 3
\* How far a driver result may exceed CONFIG.maxResultRows.
MaxExtraRows == 2
\* Collections a listCollections call may return.
MaxListed == 2
\* Largest maxRetries option a caller of generateSQLQuery passes
MaxRetriesOption == 2
\* Questions submitted in the chat
MaxSubmits == 2
\* Clicks on the Explain, Execute and Retry buttons of the messages
MaxClicks == 1
\* Selections of another connection
MaxSwitches == 2

\* -------------------------------------------------- program constants
CONFIG_queryTimeout == 30000
CONFIG_maxResultRows == 1000
MaxQueryLength == 50000
DefaultFindLimit == 100
SchemaQueryTimeout == 10000

Requests == 1 .. MaxRequests

Min(a, b) == IF a < b THEN a ELSE b

\* ------------------------------------------------------ JavaScript values
\* A value carries its type tag, so that truthiness, Array.isArray and
\* property access are computed as JavaScript computes them.
Undefined == [t |-> "undefined"]
Null == [t |-> "null"]
Str(s) == [t |-> "string", v |-> s]
Num(n) == [t |-> "number", v |-> n]
Arr(seq) == [t |-> "array", v |-> seq]
\* An object keeps the insertion order of its keys (Object.keys).
ObjOf(keys, fields) == [t |-> "object", keys |-> keys, v |-> fields]

Truthy(x) ==
    CASE x.t = "undefined" -> FALSE
      [] x.t = "null" -> FALSE
      [] x.t = "number" -> x.v # 0
      [] x.t = "string" -> x.v # ""
      [] OTHER -> TRUE

\* a || b
JsOr(a, b) == IF Truthy(a) THEN a ELSE b

\* obj.f; undefined when the property is absent or obj is a primitive.
Get(obj, f) ==
    IF obj.t = "object" /\ f \in DOMAIN obj.v THEN obj.v[f] ELSE Undefined

IsArray(x) == x.t = "array"

ObjectKeys(obj) == obj.keys

\* An Error: its message is its text and the marker substrings the handlers
\* search it for (String.prototype.includes), its code is error.code.
JsError(text, has, code) == [message |-> text, has |-> has, code |-> code]

NoCode == "none"

Thrown(e) == [ok |-> FALSE, error |-> e]
Returned(x) == [ok |-> TRUE, value |-> x]

\* -------------------------------------------------------- query strings
\* The query of a request body is a string of lead whitespace characters,
\* core characters that start and end with a non-blank one, and trail
\* whitespace characters; json is what JSON.parse makes of it, stmt the SQL
\* keyword the core begins with.
NotJSON == [t |-> "invalid"]

QueryString(lead, core, trail, json) ==
    [t |-> "string", lead |-> lead, core |-> core, trail |-> trail, json |-> json,
     stmt |-> IF json = NotJSON /\ core > 0 THEN "SELECT" ELSE ""]

Length(q) == q.lead + q.core + q.trail

\* String.prototype.trim
Trim(q) == [q EXCEPT !.lead = 0, !.trail = 0]

\* !query, for a query that is a string, undefined, null or a number
Falsy(query) ==
    IF query.t = "string" THEN Length(query) = 0 ELSE ~Truthy(query)

\* ------------------------------------------------------ getDatabaseType
\* A connection string is its scheme followed by the rest of the text.
getDatabaseType(connectionString) ==
    LET scheme == connectionString[1] IN
    IF scheme \in {"postgresql://", "postgres://"} THEN "postgres"
    ELSE IF scheme = "mysql://" THEN "mysql"
    ELSE IF scheme \in {"mongodb://", "mongodb+srv://"} THEN "mongodb"
    ELSE "postgres"

\* dbType || getDatabaseType(connectionString)
DetectedDbType(dbType, connectionString) ==
    IF Truthy(dbType) THEN dbType.v ELSE getDatabaseType(connectionString)

\* -------------------------------------------------------- validateQuery
\* validateQuery without the check of line 238 (no bound on the length).
validateQuery_nolimit(query) ==
    IF Falsy(query) \/ query.t # "string"
    THEN Thrown(JsError("Query must be a non-empty string", {}, NoCode))
    ELSE IF Length(Trim(query)) = 0
    THEN Thrown(JsError("Query cannot be empty", {}, NoCode))
    ELSE Returned(Trim(query))

validateQuery(query) ==
    IF Falsy(query) \/ query.t # "string"
    THEN Thrown(JsError("Query must be a non-empty string", {}, NoCode))
    ELSE LET trimmedQuery == Trim(query) IN
         IF Length(trimmedQuery) = 0
         THEN Thrown(JsError("Query cannot be empty", {}, NoCode))
         ELSE IF Length(trimmedQuery) > MaxQueryLength
         THEN Thrown(JsError("Query is too long (max 50000 characters)", {}, NoCode))
         ELSE Returned(trimmedQuery)

\* ------------------------------------------------------ parseMongoQuery
validOperations ==
    {"find", "findOne", "insertOne", "insertMany", "updateOne", "updateMany",
     "deleteOne", "deleteMany", "countDocuments", "aggregate"}

\* validOperations.includes(x): strict equality with one of the names
Includes(names, x) == x.t = "string" /\ x.v \in names

parseMongoQuery(query) ==
    LET mongoQuery == query.json IN
    IF mongoQuery = NotJSON
    THEN Thrown(JsError("Invalid MongoDB query format: Expected valid JSON", {}, NoCode))
    ELSE IF mongoQuery.t = "null"
    \* mongoQuery.collection on null is a TypeError
    THEN Thrown(JsError("Cannot read properties of null (reading 'collection')", {}, NoCode))
    ELSE IF ~Truthy(Get(mongoQuery, "collection"))
    THEN Thrown(JsError("MongoDB query must specify a collection", {}, NoCode))
    ELSE IF Truthy(Get(mongoQuery, "operation"))
            /\ ~Includes(validOperations, Get(mongoQuery, "operation"))
    THEN Thrown(JsError("Invalid MongoDB operation", {}, NoCode))
    ELSE Returned(mongoQuery)

\* ------------------------------------------------------- driver results
\* Row i of a result set, in the driver's order.
Row(i) == ObjOf(<<"id", "name">>, [id |-> Num(i), name |-> Str("r")])

Rows(n) == [i \in 1 .. n |-> Row(i)]

FieldMeta(name) == ObjOf(<<"name">>, [name |-> Str(name)])

\* pg: Pool.query resolves with a Result {rows, fields, rowCount}; for a
\* command (INSERT, UPDATE, ...) rows is empty and rowCount the rows affected.
PgResult(shape, n) ==
    IF shape = "rows"
    THEN ObjOf(<<"rows", "fields", "rowCount">>,
               [rows |-> Arr(Rows(n)),
                fields |-> Arr(<<FieldMeta("id"), FieldMeta("name")>>),
                rowCount |-> Num(n)])
    ELSE ObjOf(<<"rows", "fields", "rowCount">>,
               [rows |-> Arr(<<>>), fields |-> Arr(<<>>), rowCount |-> Num(n)])

\* mysql2/promise: query and execute resolve with [rows, fields]; for a
\* command rows is a ResultSetHeader and fields is undefined.
MySqlResult(shape, n) ==
    IF shape = "rows"
    THEN Arr(<<Arr(Rows(n)), Arr(<<FieldMeta("id"), FieldMeta("name")>>)>>)
    ELSE Arr(<<ObjOf(<<"affectedRows", "insertId">>,
                     [affectedRows |-> Num(n), insertId |-> Num(0)]),
               Undefined>>)

\* array[i] for a JavaScript array (0-based), undefined outside it
At(a, i) == IF a.t = "array" /\ i + 1 \in DOMAIN a.v THEN a.v[i + 1] ELSE Undefined

\* array.slice(0, k)
Slice(a, k) == Arr(SubSeq(a.v, 1, Min(Len(a.v), k)))

\* fields.map(f => f.name)
FieldNames(fields) == [i \in DOMAIN fields.v |-> Get(fields.v[i], "name").v]

\* The mongodb driver's result of one collection operation, on a collection
\* where n documents match the filter (for insertMany: are inserted).
MongoWriteResult(op, n, document) ==
    CASE op = "insertOne" ->
           ObjOf(<<"acknowledged", "insertedId">>,
                 [acknowledged |-> Str("true"),
                  insertedId |-> IF Get(document, "_id").t = "undefined"
                                 THEN Str("ObjectId") ELSE Get(document, "_id")])
      [] op = "insertMany" ->
           ObjOf(<<"acknowledged", "insertedCount", "insertedIds">>,
                 [acknowledged |-> Str("true"), insertedCount |-> Num(n),
                  insertedIds |-> ObjOf(<<>>, <<>>)])
      [] op \in {"updateOne", "updateMany"} ->
           LET k == IF op = "updateOne" THEN Min(n, 1) ELSE n IN
           ObjOf(<<"acknowledged", "modifiedCount", "upsertedId", "upsertedCount", "matchedCount">>,
                 [acknowledged |-> Str("true"), modifiedCount |-> Num(k),
                  upsertedId |-> Null, upsertedCount |-> Num(0), matchedCount |-> Num(k)])
      [] op \in {"deleteOne", "deleteMany"} ->
           LET k == IF op = "deleteOne" THEN Min(n, 1) ELSE n IN
           ObjOf(<<"acknowledged", "deletedCount">>,
                 [acknowledged |-> Str("true"), deletedCount |-> Num(k)])

\* -------------------------------------------------- response formatting
\* POST /api/query, postgres success response
PgResponse(result) ==
    LET rows == JsOr(Get(result, "rows"), Arr(<<>>))
        limitedRows == Slice(rows, CONFIG_maxResultRows)
        hasMore == Len(rows.v) > CONFIG_maxResultRows
    IN [status |-> 200, success |-> TRUE,
        rows |-> limitedRows.v,
        columns |-> IF Truthy(Get(result, "fields"))
                    THEN FieldNames(Get(result, "fields")) ELSE <<>>,
        rowCount |-> Get(result, "rowCount"),
        dbType |-> "postgres",
        hasMore |-> hasMore,
        totalRows |-> Len(rows.v)]

\* POST /api/query, mysql success response
MySqlResponse(mysqlResult) ==
    LET mysqlRowsRaw == At(mysqlResult, 0)
        mysqlFields == At(mysqlResult, 1)
        normalizedRows == IF IsArray(mysqlRowsRaw)
                          THEN Slice(mysqlRowsRaw, CONFIG_maxResultRows).v
                          ELSE IF mysqlRowsRaw.t = "object" THEN <<mysqlRowsRaw>>
                          ELSE <<>>
        rowCount == IF IsArray(mysqlRowsRaw) THEN Num(Len(mysqlRowsRaw.v))
                    ELSE IF mysqlRowsRaw.t = "object"
                    THEN (IF Get(mysqlRowsRaw, "affectedRows").t = "number"
                          THEN Get(mysqlRowsRaw, "affectedRows") ELSE Num(1))
                    ELSE Num(0)
        columns == IF IsArray(mysqlRowsRaw)
                   THEN (IF Truthy(mysqlFields) THEN FieldNames(mysqlFields)
                         ELSE IF Len(normalizedRows) > 0
                         THEN ObjectKeys(normalizedRows[1]) ELSE <<>>)
                   ELSE IF mysqlRowsRaw.t = "object" THEN ObjectKeys(mysqlRowsRaw)
                   ELSE <<>>
    IN [status |-> 200, success |-> TRUE,
        rows |-> normalizedRows,
        columns |-> columns,
        rowCount |-> rowCount,
        dbType |-> "mysql",
        hasMore |-> IsArray(mysqlRowsRaw) /\ Len(mysqlRowsRaw.v) > CONFIG_maxResultRows]

\* modifiedCount || deletedCount || insertedCount || (insertedId ? 1 : 0)
WriteRowCount(mongoResult) ==
    JsOr(JsOr(JsOr(Get(mongoResult, "modifiedCount"), Get(mongoResult, "deletedCount")),
              Get(mongoResult, "insertedCount")),
         IF Truthy(Get(mongoResult, "insertedId")) THEN Num(1) ELSE Num(0))

\* The mongodb response formatting reading Object.keys(mongoResult[0]) without
\* testing mongoResult.length: a TypeError on an empty array, answered by the
\* outer catch.
MongoResponse_unguarded(mongoResult) ==
    IF IsArray(mongoResult)
    THEN IF Len(mongoResult.v) = 0
         THEN [status |-> 500, success |-> FALSE,
               error |-> "Cannot convert undefined or null to object",
               errorCode |-> "QUERY_ERROR"]
         ELSE [status |-> 200, success |-> TRUE,
               rows |-> Slice(mongoResult, CONFIG_maxResultRows).v,
               columns |-> ObjectKeys(mongoResult.v[1]),
               rowCount |-> Num(Len(mongoResult.v)),
               dbType |-> "mongodb"]
    ELSE [status |-> 200, success |-> TRUE,
          rows |-> <<mongoResult>>,
          columns |-> ObjectKeys(mongoResult),
          rowCount |-> WriteRowCount(mongoResult),
          dbType |-> "mongodb"]

\* POST /api/query, mongodb success response
MongoResponse(mongoResult) ==
    IF IsArray(mongoResult)
    THEN [status |-> 200, success |-> TRUE,
          rows |-> Slice(mongoResult, CONFIG_maxResultRows).v,
          columns |-> IF Len(mongoResult.v) > 0
                      THEN ObjectKeys(mongoResult.v[1]) ELSE <<>>,
          rowCount |-> Num(Len(mongoResult.v)),
          dbType |-> "mongodb"]
    ELSE [status |-> 200, success |-> TRUE,
          rows |-> <<mongoResult>>,
          columns |-> ObjectKeys(mongoResult),
          rowCount |-> WriteRowCount(mongoResult),
          dbType |-> "mongodb"]

\* POST /api/query, the outer catch: the error envelope
QueryErrorCode(error) ==
    IF "timeout" \in error.has THEN "TIMEOUT"
    ELSE IF error.code = "42P01" \/ "does not exist" \in error.has THEN "NOT_FOUND"
    ELSE IF error.code = "42601" \/ "syntax error" \in error.has THEN "SYNTAX_ERROR"
    ELSE IF "permission denied" \in error.has THEN "PERMISSION_DENIED"
    ELSE "QUERY_ERROR"

\* process.env.NODE_ENV of the server process: not the development mode.
NODE_ENV == "production"

\* errorMessage: a fixed text for three of the classes, the driver's text
\* behind a prefix for syntax errors, the driver's text otherwise.
QueryErrorMessage(error) ==
    CASE QueryErrorCode(error) = "TIMEOUT" ->
           "Query execution timed out after 30 seconds. Try simplifying your query or adding LIMIT."
      [] QueryErrorCode(error) = "NOT_FOUND" ->
           "Table or column does not exist. Please check your query."
      [] QueryErrorCode(error) = "SYNTAX_ERROR" -> "SQL syntax error: " \o error.message
      [] QueryErrorCode(error) = "PERMISSION_DENIED" ->
           "Permission denied. You may not have access to perform this operation."
      [] OTHER -> error.message

QueryErrorResponse(error) ==
    [status |-> 500, success |-> FALSE,
     error |-> QueryErrorMessage(error), errorCode |-> QueryErrorCode(error),
     originalError |-> IF NODE_ENV = "development" THEN Str(error.message) ELSE Undefined]

\* The 400 answer to a body without connection string or query: {error}
BadRequestResponse(text) == [status |-> 400, error |-> text]

\* POST /api/schema, the catch
SchemaErrorResponse(error) ==
    [status |-> 500, success |-> FALSE, error |-> error.message]

\* ------------------------------------------------------------ the Maps
\* A Map is a function on the keys it holds.
MapHas(m, k) == k \in DOMAIN m
MapSet(m, k, x) == [y \in DOMAIN m \cup {k} |-> IF y = k THEN x ELSE m[y]]
MapDelete(m, k) == [y \in DOMAIN m \ {k} |-> m[y]]
EmptyMap == [y \in {} |-> 0]

\* ---------------------------------------------------------------- state
NoHandle == 0

VARIABLES
    pools,          \* the Map pools: connection string -> PostgreSQL or MySQL pool
    mongoClients,   \* the Map mongoClients: connection string -> MongoClient
    handles,        \* every pool and client constructed so far, by identity
    req,            \* per handler run: where it is suspended and its locals
    served,         \* history: the handles each Map's getter has returned for a
                    \* connection string since that string was last deleted
    proc,           \* the process: running, or where its SIGTERM handler is
    gen,            \* the AI service's call of generateSQLQuery
    test,           \* the run of POST /api/test-connection
    chat            \* the state of the ChatInterface component and its runs

vars == <<pools, mongoClients, handles, req, served, proc, gen, test, chat>>

\* No run of POST /api/test-connection.  client is the state of the client
\* or connection the run has opened; late is the loser of the withTimeout
\* race around its connect that is still pending.
NoTest ==
    [pc |-> "idle", connectionString |-> <<>>, dbType |-> "none",
     client |-> "none", late |-> "none", response |-> [status |-> 0]]

\* A generated query: the database type it is for, the keyword (SQL) or the
\* operation (mongodb) it begins with, and the other SQL keywords in it.
NoQuery == [dbType |-> "none", start |-> "", words |-> {}]

NoDialog == [messageId |-> 0, query |-> NoQuery, conn |-> 0]

\* ChatInterface when mounted: no connection selected (0), no schema, no
\* message.  loads are the pending getDatabaseSchema calls, runs the
\* handleSubmit runs in flight, execs the handleExecuteQuery runs in flight,
\* explains the handleExplain runs in flight; calls is the history of the
\* calls of executeQuery.
NoChat ==
    [selected |-> 0, schema |-> 0, loads |-> {}, loading |-> FALSE,
     confirmDialog |-> NoDialog, messages |-> <<>>, runs |-> {}, execs |-> {},
     explains |-> 0, calls |-> <<>>, nextId |-> 1,
     submits |-> 0, clicks |-> 0, switches |-> 0]

\* No call of generateSQLQuery yet.  outcomes is the history of the call: what
\* became of each attempt.
NoCall ==
    [pc |-> "idle", genAI |-> FALSE, dbType |-> "none", maxRetries |-> 0,
     attempt |-> 0, calls |-> 0,
     lastError |-> "null", delay |-> 0, outcomes |-> <<>>,
     result |-> [t |-> "undefined"], thrown |-> ""]

\* The process before SIGTERM.  The SIGTERM handler iterates the two Maps: a
\* Map iterator visits the entries in place when it advances, so visitedPools
\* and visitedClients are the keys it has passed; attempted holds the handles
\* the handler has called end() or close() on, failed those whose call
\* rejected, snapshot the handles the Maps held when the signal arrived.
Running ==
    [pc |-> "running", visitedPools |-> {}, visitedClients |-> {},
     attempted |-> {}, failed |-> {}, snapshot |-> {}, closing |-> NoHandle]

NoResponse == [status |-> 0]
NoError == JsError("", {}, NoCode)
\* History: what the driver resolved the run's query with (the shape and the
\* size of the result set, and the length of the array it returned, -1 when
\* it returned no array).
NoDriver == [shape |-> "none", n |-> 0, returned |-> 0 - 1]

\* The handler runs are interchangeable: a request that arrives is given the
\* first slot that holds no run in flight.
FirstFree(r) ==
    /\ req[r].pc = "idle"
    /\ \A q \in Requests : q < r => req[q].pc # "idle"

\* A handler run that has not started.  late is the loser of a withTimeout
\* race that is still pending when the race is decided: the driver's promise
\* ("driver") or the timer, which withTimeout never clears ("timer"); sent
\* counts the HTTP responses the run has sent; sampled is the history of the
\* schema loop: per collection, the number of documents the sample found in
\* it, or SampleFailed; fired tells that the timer of a race has fired first.
IdleRequest ==
    [pc |-> "idle", endpoint |-> "none",
     body |-> [connectionString |-> <<>>, query |-> Undefined, dbType |-> Undefined],
     dbType |-> "none", client |-> NoHandle, call |-> "none", arg |-> Undefined,
     timer |-> 0, overdue |-> FALSE, error |-> NoError,
     idx |-> 0, collections |-> 0, tables |-> <<>>,
     events |-> <<>>, driver |-> NoDriver, response |-> NoResponse,
     late |-> "none", sent |-> 0, sampled |-> <<>>, fired |-> FALSE]

NewRequest(endpoint, body) ==
    [IdleRequest EXCEPT !.endpoint = endpoint, !.body = body]

\* The states in which a handler run waits for a driver promise.
Awaiting == {"await_connect", "await_query", "await_close"}

Init ==
    /\ pools = EmptyMap
    /\ mongoClients = EmptyMap
    /\ handles = <<>>
    /\ req = [r \in Requests |-> IdleRequest]
    /\ served = EmptyMap
    /\ proc = Running
    /\ gen = NoCall
    /\ test = NoTest
    /\ chat = NoChat

ServedAdd(S, map, cs, h) ==
    LET k == <<map, cs>> IN
    MapSet(S, k, (IF MapHas(S, k) THEN S[k] ELSE {}) \cup {h})

ServedReset(S, map, cs) == MapDelete(S, <<map, cs>>)

\* One run of a handler ends here: its new locals and the new registry.
\* Handlers run as long as the process lives.
Commit(r, rq, P, MC, H, S) ==
    /\ proc.pc # "exited"
    \* an entry deleted from a Map is gone from its iterator's past: set again,
    \* it is a new entry at the end
    /\ proc' = [proc EXCEPT !.visitedPools = @ \cap DOMAIN P,
                            !.visitedClients = @ \cap DOMAIN MC]
    /\ UNCHANGED <<gen, test, chat>>
    /\ req' = [req EXCEPT ![r] = rq]
    /\ pools' = P
    /\ mongoClients' = MC
    /\ handles' = H
    /\ served' = S

\* res.json(...) / res.status(...).json(...): the run is over.
Respond(rq, response) ==
    [rq EXCEPT !.pc = "done", !.response = response, !.sent = rq.sent + 1,
               !.call = "none", !.timer = 0,
               !.overdue = FALSE, !.arg = Undefined, !.error = NoError,
               !.idx = 0, !.collections = 0]

\* The run issues a driver call and awaits its promise; timer is the delay of
\* the withTimeout race around it, 0 when the call is awaited bare.
Issue(rq, pc, call, arg, timer, h) ==
    [rq EXCEPT !.pc = pc, !.call = call, !.arg = arg, !.timer = timer,
               !.client = h, !.overdue = FALSE,
               !.events = Append(rq.events, call)]

\* ------------------------------------------------------------- registry
NewHandle(kind, cs, state) == [kind |-> kind, cs |-> cs, state |-> state]

getPostgresPool(P, H, cs) ==
    IF ~MapHas(P, cs)
    THEN LET pool == Len(H) + 1 IN
         [map |-> MapSet(P, cs, pool),
          handles |-> Append(H, NewHandle("pg", cs, "open")),
          handle |-> pool, events |-> <<"pools.has", "new Pool">>]
    ELSE [map |-> P, handles |-> H, handle |-> P[cs], events |-> <<"pools.has">>]

getMySQLPool(P, H, cs) ==
    IF ~MapHas(P, cs)
    THEN LET pool == Len(H) + 1 IN
         [map |-> MapSet(P, cs, pool),
          handles |-> Append(H, NewHandle("mysql", cs, "open")),
          handle |-> pool, events |-> <<"pools.has", "createPool">>]
    ELSE [map |-> P, handles |-> H, handle |-> P[cs], events |-> <<"pools.has">>]

\* new MongoClient(connectionString) throws on a scheme that is not MongoDB's.
MongoSchemeOk(cs) == cs[1] \in {"mongodb://", "mongodb+srv://"}

SetState(H, h, state) == [H EXCEPT ![h].state = state]

\* ------------------------------------------- POST /api/query, mongodb
\* mongoQuery.operation || 'find'
MongoOperation(mongoQuery) == JsOr(Get(mongoQuery, "operation"), Str("find")).v

\* The guards of the operation switch: the payload each case requires.
PayloadCheck(op, mongoQuery) ==
    CASE op = "insertOne" /\ ~Truthy(Get(mongoQuery, "document")) ->
           Thrown(JsError("insertOne requires a \"document\" field", {}, NoCode))
      [] op = "insertMany" /\ (~Truthy(Get(mongoQuery, "documents"))
                               \/ ~IsArray(Get(mongoQuery, "documents"))) ->
           Thrown(JsError("insertMany requires a \"documents\" array", {}, NoCode))
      [] op \in {"updateOne", "updateMany"} /\ ~Truthy(Get(mongoQuery, "update")) ->
           Thrown(JsError("update requires an \"update\" field", {}, NoCode))
      [] op = "aggregate" /\ (~Truthy(Get(mongoQuery, "pipeline"))
                              \/ ~IsArray(Get(mongoQuery, "pipeline"))) ->
           Thrown(JsError("aggregate requires a \"pipeline\" array", {}, NoCode))
      [] op \notin validOperations ->
           Thrown(JsError("Unsupported MongoDB operation", {}, NoCode))
      [] OTHER -> Returned(op)

\* The switch with the deleteOne case calling collection.deleteMany.
MongoDriverCall_swapped(op) ==
    "collection." \o (IF op = "deleteOne" THEN "deleteMany" ELSE op)

\* The collection method each case of the switch calls.
MongoDriverCall(op) == "collection." \o op

\* The cases that race the driver call against a timer (withTimeout).
MongoTimer(op) == IF op \in {"find", "findOne"} THEN CONFIG_queryTimeout ELSE 0

\* Math.min(mongoQuery.limit || 100, CONFIG.maxResultRows)
FindLimit(mongoQuery) ==
    Min(JsOr(Get(mongoQuery, "limit"), Num(DefaultFindLimit)).v, CONFIG_maxResultRows)

\* mongoResult after the switch, when the driver call has resolved on a
\* collection in which n documents match.
MongoResult(call, mongoQuery, n) ==
    CASE call = "collection.find" -> Arr(Rows(Min(n, FindLimit(mongoQuery))))
      [] call = "collection.findOne" -> IF n > 0 THEN Arr(<<Row(1)>>) ELSE Arr(<<>>)
      [] call = "collection.countDocuments" ->
           Arr(<<ObjOf(<<"count">>, [count |-> Num(n)])>>)
      [] call = "collection.aggregate" -> Arr(Rows(n))
      [] call = "collection.insertOne" ->
           MongoWriteResult("insertOne", 1, Get(mongoQuery, "document"))
      [] call = "collection.insertMany" ->
           MongoWriteResult("insertMany", Len(Get(mongoQuery, "documents").v), Undefined)
      [] call = "collection.updateOne" -> MongoWriteResult("updateOne", n, Undefined)
      [] call = "collection.updateMany" -> MongoWriteResult("updateMany", n, Undefined)
      [] call = "collection.deleteOne" -> MongoWriteResult("deleteOne", n, Undefined)
      [] call = "collection.deleteMany" -> MongoWriteResult("deleteMany", n, Undefined)

\* closeMongoClient(connectionString) up to its await, then throw mongoError:
\* the inner catch of the mongodb case.
MongoCatch(r, rq, MC, H, S, error) ==
    LET cs == rq.body.connectionString IN
    IF MapHas(MC, cs)
    THEN Commit(r, [Issue(rq, "await_close", "client.close", Undefined, 0, rq.client)
                      EXCEPT !.error = error],
                pools, MC, SetState(H, MC[cs], "closed"), S)
    ELSE Commit(r, Respond(rq, QueryErrorResponse(error)), pools, MC, H, S)

\* The mongodb case from parseMongoQuery to the await of the driver call.
MongoDispatch(r, rq, MC, H, S) ==
    LET parsed == parseMongoQuery(rq.arg) IN
    IF ~parsed.ok THEN MongoCatch(r, rq, MC, H, S, parsed.error)
    ELSE LET mongoQuery == parsed.value
             op == MongoOperation(mongoQuery)
             checked == PayloadCheck(op, mongoQuery)
         IN IF ~checked.ok THEN MongoCatch(r, rq, MC, H, S, checked.error)
            ELSE Commit(r, Issue(rq, "await_query", MongoDriverCall(op), mongoQuery,
                                 MongoTimer(op), rq.client),
                        pools, MC, H, S)

\* ----------------------------------------------- POST /api/schema parts
MaxCollections == 50
SampleLimit == 5

\* The mongodb case after getMongoClient: await db.listCollections().toArray()
SchemaList(r, rq, MC, H, S) ==
    Commit(r, Issue(rq, "await_query", "listCollections", Undefined, 0, rq.client),
           pools, MC, H, S)

\* The catch of the schema handler: no handle is closed or deleted.
SchemaFail(r, rq, MC, H, S, error) ==
    Commit(r, Respond(rq, SchemaErrorResponse(error)), pools, MC, H, S)

SchemaResponse(tables, dbType) ==
    [status |-> 200, success |-> TRUE, tables |-> tables, dbType |-> dbType]

\* A document of a sampled collection.
SampleDoc ==
    ObjOf(<<"_id", "id", "name">>, [_id |-> Str("ObjectId"), id |-> Num(1), name |-> Str("r")])

SampleFailed == 0 - 1

\* The field list inferred from the sample documents of one collection: the
\* keys of the documents, _id left out.
SampledFields(n) ==
    IF Min(n, SampleLimit) > 0
    THEN SelectSeq(ObjectKeys(SampleDoc), LAMBDA key : key # "_id")
    ELSE <<>>

\* One turn of the loop over collections.slice(0, 50): the next sample is
\* awaited, or the loop is over and the response is sent.
SchemaLoop(r, rq, tables) ==
    IF rq.idx < rq.collections
    THEN Commit(r, [Issue(rq, "await_query", "collection.find.sample", Undefined, 0, rq.client)
                      EXCEPT !.idx = rq.idx + 1, !.tables = tables],
                pools, mongoClients, handles, served)
    ELSE Commit(r, Respond([rq EXCEPT !.tables = tables], SchemaResponse(tables, "mongodb")),
                pools, mongoClients, handles, served)

\* ------------------------------------------------------------- actions
\* getMongoClient up to its await (or, for a cached client, to its return).
\* A run resumed from an await of an already settled promise continues
\* before any I/O callback, so the cached path is one run with what follows:
\* parseMongoQuery and the switch in POST /api/query, listCollections in
\* POST /api/schema; what getMongoClient throws reaches the handler's catch.
getMongoClient(r, rq) ==
    LET cs == rq.body.connectionString
        rq1 == [rq EXCEPT !.events = Append(rq.events, "mongoClients.has")]
        invalid == JsError("Invalid scheme, expected connection string to start with mongodb",
                           {}, NoCode)
    IN IF MapHas(mongoClients, cs)
       THEN LET rq2 == [rq1 EXCEPT !.client = mongoClients[cs]]
                S == ServedAdd(served, "mongoClients", cs, mongoClients[cs])
            IN IF rq.endpoint = "query"
               THEN MongoDispatch(r, rq2, mongoClients, handles, S)
               ELSE SchemaList(r, rq2, mongoClients, handles, S)
       ELSE IF ~MongoSchemeOk(cs)
       THEN IF rq.endpoint = "query"
            THEN MongoCatch(r, rq1, mongoClients, handles, served, invalid)
            ELSE SchemaFail(r, rq1, mongoClients, handles, served, invalid)
       ELSE LET client == Len(handles) + 1 IN
            Commit(r, Issue([rq1 EXCEPT !.events = Append(rq1.events, "new MongoClient")],
                            "await_connect", "client.connect", rq1.arg, 0, client),
                   pools, mongoClients,
                   Append(handles, NewHandle("mongo", cs, "connecting")), served)

\* POST /api/query arrives: the handler runs to its first await.
ReceiveQuery(r, body) ==
    /\ FirstFree(r)
    /\ LET rq0 == NewRequest("query", body)
           cs == body.connectionString
       IN IF cs = <<>> \/ Falsy(body.query)
          THEN Commit(r, Respond(rq0, BadRequestResponse("Connection string and query are required")),
                      pools, mongoClients, handles, served)
          ELSE LET detectedDbType == DetectedDbType(body.dbType, cs)
                   validated == validateQuery(body.query)
                   rq == [rq0 EXCEPT !.dbType = detectedDbType]
               IN IF ~validated.ok
                  THEN Commit(r, Respond(rq, QueryErrorResponse(validated.error)),
                              pools, mongoClients, handles, served)
                  ELSE CASE detectedDbType = "postgres" ->
                              LET g == getPostgresPool(pools, handles, cs) IN
                              Commit(r, Issue([rq EXCEPT !.events = g.events], "await_query",
                                              "pool.query", validated.value,
                                              CONFIG_queryTimeout, g.handle),
                                     g.map, mongoClients, g.handles,
                                     ServedAdd(served, "pools", cs, g.handle))
                         [] detectedDbType = "mysql" ->
                              LET g == getMySQLPool(pools, handles, cs) IN
                              IF g.handles[g.handle].kind # "mysql"
                              \* a pg Pool has no execute method: a TypeError
                              THEN Commit(r, Respond([rq EXCEPT !.events = g.events],
                                                     QueryErrorResponse(JsError(
                                                       "mysqlPool.execute is not a function",
                                                       {}, NoCode))),
                                          g.map, mongoClients, g.handles,
                                          ServedAdd(served, "pools", cs, g.handle))
                              ELSE Commit(r, Issue([rq EXCEPT !.events = g.events], "await_query",
                                                   "pool.execute", validated.value,
                                                   CONFIG_queryTimeout, g.handle),
                                          g.map, mongoClients, g.handles,
                                          ServedAdd(served, "pools", cs, g.handle))
                         [] detectedDbType = "mongodb" ->
                              getMongoClient(r, [rq EXCEPT !.arg = validated.value])
                         [] OTHER ->
                              Commit(r, Respond(rq, QueryErrorResponse(
                                          JsError("Unsupported database type", {}, NoCode))),
                                     pools, mongoClients, handles, served)

\* POST /api/schema arrives: the handler runs to its first await.
ReceiveSchema(r, body) ==
    /\ FirstFree(r)
    /\ LET rq0 == NewRequest("schema", body)
           cs == body.connectionString
       IN IF cs = <<>>
          THEN Commit(r, Respond(rq0, BadRequestResponse("Connection string is required")),
                      pools, mongoClients, handles, served)
          ELSE LET detectedDbType == DetectedDbType(body.dbType, cs)
                   rq == [rq0 EXCEPT !.dbType = detectedDbType]
               IN CASE detectedDbType = "postgres" ->
                         LET g == getPostgresPool(pools, handles, cs) IN
                         Commit(r, Issue([rq EXCEPT !.events = g.events], "await_query",
                                         "pool.query", Undefined, SchemaQueryTimeout, g.handle),
                                g.map, mongoClients, g.handles,
                                ServedAdd(served, "pools", cs, g.handle))
                    [] detectedDbType = "mysql" ->
                         LET g == getMySQLPool(pools, handles, cs) IN
                         IF g.handles[g.handle].kind # "mysql"
                         THEN Commit(r, Respond([rq EXCEPT !.events = g.events],
                                                SchemaErrorResponse(JsError(
                                                  "mysqlPool.execute is not a function",
                                                  {}, NoCode))),
                                     g.map, mongoClients, g.handles,
                                     ServedAdd(served, "pools", cs, g.handle))
                         ELSE Commit(r, Issue([rq EXCEPT !.events = g.events], "await_query",
                                              "pool.execute", Undefined, SchemaQueryTimeout,
                                              g.handle),
                                     g.map, mongoClients, g.handles,
                                     ServedAdd(served, "pools", cs, g.handle))
                    [] detectedDbType = "mongodb" ->
                         getMongoClient(r, rq)
                    [] OTHER ->
                         Commit(r, Respond(rq, SchemaErrorResponse(
                                     JsError("Unsupported database type", {}, NoCode))),
                                pools, mongoClients, handles, served)

\* client.connect() resolves: getMongoClient stores the client and returns
\* mongoClients.get(connectionString); the handler continues to its next await.
ConnectResolves(r) ==
    /\ req[r].pc = "await_connect"
    /\ LET rq == req[r]
           cs == rq.body.connectionString
           MC == MapSet(mongoClients, cs, rq.client)
           H == SetState(handles, rq.client, "connected")
           rq1 == [rq EXCEPT !.client = MC[cs]]
           S == ServedAdd(served, "mongoClients", cs, MC[cs])
       IN IF rq.endpoint = "query"
          THEN MongoDispatch(r, rq1, MC, H, S)
          ELSE SchemaList(r, rq1, MC, H, S)

\* getMongoClient storing the client before it awaits client.connect(): the
\* client whose connect rejects is in mongoClients when the error is caught.
ConnectRejects_stores(r, error) ==
    /\ req[r].pc = "await_connect"
    /\ LET rq == req[r]
           H == SetState(handles, rq.client, "failed")
           MC == MapSet(mongoClients, rq.body.connectionString, rq.client)
       IN IF rq.endpoint = "query"
          THEN MongoCatch(r, rq, MC, H, served, error)
          ELSE SchemaFail(r, rq, MC, H, served, error)

\* client.connect() rejects: nothing is stored; the error reaches the catch.
ConnectRejects(r, error) ==
    /\ req[r].pc = "await_connect"
    /\ LET rq == req[r]
           H == SetState(handles, rq.client, "failed")
       IN IF rq.endpoint = "query"
          THEN MongoCatch(r, rq, mongoClients, H, served, error)
          ELSE SchemaFail(r, rq, mongoClients, H, served, error)

\* The schema loop without its inner try/catch: a failing sample reaches the
\* handler's catch.
Reject_unguardedLoop(r, rq, error) ==
    IF rq.endpoint = "query"
    THEN IF rq.dbType = "mongodb"
         THEN MongoCatch(r, rq, mongoClients, handles, served, error)
         ELSE Commit(r, Respond(rq, QueryErrorResponse(error)),
                     pools, mongoClients, handles, served)
    ELSE SchemaFail(r, rq, mongoClients, handles, served, error)

\* The SQL cases of POST /api/query issuing the query again when it fails.
Reject_retries(r, rq, error) ==
    IF rq.endpoint = "query"
    THEN IF rq.dbType = "mongodb"
         THEN MongoCatch(r, rq, mongoClients, handles, served, error)
         ELSE Commit(r, Issue(rq, "await_query", rq.call, rq.arg, rq.timer, rq.client),
                     pools, mongoClients, handles, served)
    ELSE IF rq.call = "collection.find.sample"
         THEN SchemaLoop(r, [rq EXCEPT !.sampled = Append(rq.sampled, SampleFailed)],
                         Append(rq.tables, <<>>))
         ELSE SchemaFail(r, rq, mongoClients, handles, served, error)

\* The awaited promise of a query or collection operation rejects with error
\* (the driver's rejection, or the timer's when it wins the race).
Reject(r, rq, error) ==
    IF rq.endpoint = "query"
    THEN IF rq.dbType = "mongodb"
         THEN MongoCatch(r, rq, mongoClients, handles, served, error)
         ELSE Commit(r, Respond(rq, QueryErrorResponse(error)),
                     pools, mongoClients, handles, served)
    ELSE IF rq.call = "collection.find.sample"
         \* the try/catch inside the loop: an empty field list for this collection
         THEN SchemaLoop(r, [rq EXCEPT !.sampled = Append(rq.sampled, SampleFailed)],
                         Append(rq.tables, <<>>))
         ELSE SchemaFail(r, rq, mongoClients, handles, served, error)

TimeoutError(rq) ==
    IF rq.endpoint = "schema" THEN JsError("Schema query timeout", {"timeout"}, NoCode)
    ELSE IF rq.dbType = "postgres" THEN JsError("PostgreSQL query timeout", {"timeout"}, NoCode)
    ELSE IF rq.dbType = "mysql" THEN JsError("MySQL query timeout", {"timeout"}, NoCode)
    ELSE JsError("MongoDB query timeout", {"timeout"}, NoCode)

\* What the pool's query/execute resolves with, by the driver that made it.
PoolResult(kind, shape, n) ==
    IF kind = "pg" THEN PgResult(shape, n) ELSE MySqlResult(shape, n)

\* A driver gets answers only from a server that speaks its protocol: the
\* server a connection string names is of the kind its scheme tells.
ServerAnswers(handle) ==
    getDatabaseType(handle.cs) =
        (CASE handle.kind = "pg" -> "postgres"
           [] handle.kind = "mysql" -> "mysql"
           [] OTHER -> "mongodb")

\* The driver call resolves; shape and n are the environment's: the kind of
\* result (a row set or a command's header) and the size of the result set.
DriverResolves(r, shape, n) ==
    /\ req[r].pc = "await_query"
    /\ req[r].call # "listCollections"
    /\ ServerAnswers(handles[req[r].client])
    /\ LET rq == [req[r] EXCEPT !.late = IF req[r].timer > 0 THEN "timer" ELSE "none"]
           kind == handles[rq.client].kind
           result == IF rq.dbType = "mongodb" /\ rq.endpoint = "query"
                     THEN MongoResult(rq.call, rq.arg, n)
                     ELSE PoolResult(kind, shape, n)
           rows == CASE rq.dbType = "mongodb" -> result
                     [] kind = "pg" -> Get(result, "rows")
                     [] OTHER -> At(result, 0)
           seen == [shape |-> shape, n |-> n,
                    returned |-> IF IsArray(rows) THEN Len(rows.v) ELSE 0 - 1]
       IN IF rq.endpoint = "query"
          THEN Commit(r, Respond([rq EXCEPT !.driver = seen],
                         CASE rq.dbType = "postgres" -> PgResponse(result)
                           [] rq.dbType = "mysql" -> MySqlResponse(result)
                           [] OTHER -> MongoResponse(result)),
                      pools, mongoClients, handles, served)
          ELSE CASE rq.call = "collection.find.sample" ->
                      SchemaLoop(r, [rq EXCEPT !.sampled = Append(rq.sampled, n)],
                                 Append(rq.tables, SampledFields(n)))
                 [] OTHER ->
                      \* result.rows.forEach / mysqlResult[0].forEach
                      IF rq.dbType = "postgres" /\ kind # "pg"
                      THEN SchemaFail(r, rq, mongoClients, handles, served,
                                      JsError("Cannot read properties of undefined (reading 'forEach')",
                                              {}, NoCode))
                      ELSE Commit(r, Respond(rq, SchemaResponse(<<n>>, rq.dbType)),
                                  pools, mongoClients, handles, served)

\* db.listCollections().toArray() resolves with n collections: the loop over
\* the first 50 of them starts.
ListResolves(r, n) ==
    /\ req[r].pc = "await_query"
    /\ req[r].call = "listCollections"
    /\ SchemaLoop(r, [req[r] EXCEPT !.collections = Min(n, MaxCollections),
                                    !.driver = [shape |-> "list", n |-> n, returned |-> n]],
                  <<>>)

\* The driver call rejects.
DriverRejects(r, error) ==
    /\ req[r].pc = "await_query"
    /\ Reject(r, [req[r] EXCEPT !.late = IF req[r].timer > 0 THEN "timer" ELSE "none"], error)

\* The timeout delay passes with the awaited driver call still pending.  A
\* call inside withTimeout loses the race to the timer; a call awaited bare
\* stays pending, and the run is then overdue.
TimeoutElapses(r) ==
    /\ req[r].pc \in Awaiting
    /\ ~req[r].overdue
    /\ IF req[r].timer > 0
       THEN Reject(r, [req[r] EXCEPT !.late = "driver", !.fired = TRUE], TimeoutError(req[r]))
       ELSE Commit(r, [req[r] EXCEPT !.overdue = TRUE], pools, mongoClients, handles, served)

\* The loser of a race whose settling runs the handler's catch once more: a
\* second response is sent.
LateSettles_answers(r) ==
    /\ req[r].late # "none"
    /\ Commit(r, [req[r] EXCEPT !.late = "none", !.sent = req[r].sent + 1,
                               !.response = [status |-> 500, success |-> FALSE,
                                             error |-> "late", errorCode |-> "QUERY_ERROR"]],
              pools, mongoClients, handles, served)

\* The loser of a decided withTimeout race settles: the driver's promise
\* resolves or rejects after the timer has won, or the timer fires after the
\* driver has settled.  Promise.race has settled already: no handler runs.
LateSettles(r) ==
    /\ req[r].late # "none"
    /\ Commit(r, [req[r] EXCEPT !.late = "none"], pools, mongoClients, handles, served)

\* closeMongoClient after its await: close() settled either way (a rejection
\* is caught and logged); the entry is deleted and mongoError rethrown.
CloseSettles(r) ==
    /\ req[r].pc = "await_close"
    /\ LET rq == req[r]
           cs == rq.body.connectionString
       IN Commit(r, Respond(rq, QueryErrorResponse(rq.error)),
                 pools, MapDelete(mongoClients, cs), handles,
                 ServedReset(served, "mongoClients", cs))

\* ------------------------------------------------------------- inputs
PgString == <<"postgresql://", "db">>
MySqlString == <<"mysql://", "db">>
MongoString == <<"mongodb://", "db">>
OtherString == <<"sqlite://", "db">>

Body(cs, query, dbType) == [connectionString |-> cs, query |-> query, dbType |-> dbType]

\* A query text of the given length around an SQL statement.
Sql(lead, core, trail) == QueryString(lead, core, trail, NotJSON)

\* The text of an SQL statement that begins with the given keyword.
SqlStatement(stmt) == [Sql(0, 8, 0) EXCEPT !.stmt = stmt]

\* The text of a MongoDB query document.
MongoText(fields) == QueryString(0, 40, 0, ObjOf(<<>>, fields))

FindUsers == MongoText([collection |-> Str("users"), operation |-> Str("find")])
InsertUser ==
    MongoText([collection |-> Str("users"), operation |-> Str("insertOne"),
               document |-> ObjOf(<<"name">>, [name |-> Str("x")])])
NoCollection == MongoText([operation |-> Str("find")])

\* The driver errors of the environment.
ConnRefused == JsError("connect ECONNREFUSED", {}, "ECONNREFUSED")
AuthFailed == JsError("password authentication failed", {"authentication"}, "28P01")
MissingTable == JsError("relation does not exist", {"does not exist"}, "42P01")
BadSyntax == JsError("syntax error at or near", {"syntax error"}, "42601")
Denied == JsError("permission denied for table", {"permission denied"}, "42501")
DriverTimeout == JsError("Connection terminated due to connection timeout", {"timeout"}, NoCode)
NetworkError == JsError("connection closed", {}, NoCode)

ConnectionErrors == {ConnRefused, AuthFailed}

\* The requests and driver outcomes of the concurrent specification.
QueryBodies ==
    {Body(PgString, Sql(0, 8, 0), Undefined),
     Body(MySqlString, Sql(0, 8, 0), Undefined),
     Body(MongoString, FindUsers, Undefined),
     Body(MongoString, NoCollection, Undefined)}

SchemaBodies ==
    {Body(MongoString, Undefined, Undefined)}

Shapes == {"rows"}
Sizes == {1}
DriverErrors == {ConnRefused, NetworkError}

\* The response has been sent and the run's locals are garbage: the slot is free.
Release(r) ==
    /\ req[r].pc = "done"
    /\ Commit(r, IdleRequest, pools, mongoClients, handles, served)

\* One step of the server: a request arrives, or a suspended handler run is
\* resumed by the event it waits for.
Step(R, QB, SB, CE, SH, SZ, CZ, DE, HL) ==
    /\ \E r \in R :
        \/ \E body \in QB : ReceiveQuery(r, body)
        \/ \E body \in SB : ReceiveSchema(r, body)
        \/ ConnectResolves(r)
        \/ \E error \in CE : ConnectRejects(r, error)
        \/ \E shape \in SH, n \in SZ : DriverResolves(r, shape, n)
        \/ \E n \in CZ : ListResolves(r, n)
        \/ \E error \in DE : DriverRejects(r, error)
        \/ TimeoutElapses(r)
        \/ CloseSettles(r)
        \/ LateSettles(r)
        \/ Release(r)
    /\ Len(handles') <= HL

Next ==
    Step(Requests, QueryBodies, SchemaBodies, {ConnRefused}, Shapes, Sizes, {1}, DriverErrors,
         MaxHandles)

Spec == Init /\ [][Next]_vars

\* ------------------------------------- the sequential specification
\* One handler run at a time, over the whole range of request bodies and
\* driver results: what one request is answered with.
Doc(fields) == ObjOf(<<>>, fields)

Mongo(op, fields) ==
    MongoText([collection |-> Str("users"), operation |-> Str(op)] @@ fields)

MongoTexts ==
    {FindUsers, InsertUser, NoCollection,
     MongoText([collection |-> Str("users")]),
     MongoText([collection |-> Str("users"), limit |-> Num(CONFIG_maxResultRows + 1)]),
     MongoText([collection |-> Str("users"), operation |-> Str("")]),
     MongoText([collection |-> Str("users"), operation |-> Null]),
     MongoText([collection |-> Str(""), operation |-> Str("find")]),
     Mongo("drop", <<>>),
     Mongo("findOne", <<>>),
     Mongo("insertOne", <<>>),
     Mongo("insertOne", [document |-> ObjOf(<<"_id">>, [_id |-> Num(0)])]),
     Mongo("insertOne", [document |-> ObjOf(<<"_id">>, [_id |-> Num(7)])]),
     Mongo("insertMany", [documents |-> Arr(<<Doc(<<>>), Doc(<<>>)>>)]),
     Mongo("insertMany", [documents |-> Doc(<<>>)]),
     Mongo("updateOne", [update |-> Doc(<<>>)]),
     Mongo("updateOne", <<>>),
     Mongo("updateMany", [update |-> Doc(<<>>)]),
     Mongo("deleteOne", <<>>),
     Mongo("deleteMany", <<>>),
     Mongo("countDocuments", <<>>),
     Mongo("aggregate", [pipeline |-> Arr(<<>>)]),
     Mongo("aggregate", <<>>),
     QueryString(0, 40, 0, NotJSON),
     QueryString(0, 4, 0, Null)}

\* Query texts around the length limit, with and without blanks at the ends.
SqlTexts ==
    {Sql(0, 8, 0), Sql(1, 0, 0), Sql(0, 8, 2),
     Sql(0, MaxQueryLength, 0), Sql(0, MaxQueryLength + 1, 0),
     Sql(1, MaxQueryLength, 1), Sql(2, MaxQueryLength - 1, 0),
     Sql(1, MaxQueryLength + 1, 0)}

SeqQueryBodies ==
    {Body(cs, q, Undefined) : cs \in {PgString, MySqlString, MongoString}, q \in SqlTexts}
    \cup {Body(MongoString, q, Undefined) : q \in MongoTexts}
    \cup {Body(PgString, Sql(0, 8, 0), Str("mysql")),
          Body(MySqlString, Sql(0, 8, 0), Str("postgres")),
          Body(PgString, FindUsers, Str("mongodb")),
          Body(PgString, SqlStatement("DELETE"), Undefined),
          Body(MySqlString, SqlStatement("DROP"), Undefined),
          Body(PgString, Sql(0, 8, 0), Str("oracle")),
          Body(OtherString, Sql(0, 8, 0), Undefined),
          Body(<<>>, Sql(0, 8, 0), Undefined),
          Body(PgString, Undefined, Undefined),
          Body(PgString, Sql(0, 0, 0), Undefined),
          Body(PgString, Num(5), Undefined)}

SeqSchemaBodies ==
    {Body(cs, Undefined, Undefined) : cs \in {PgString, MySqlString, MongoString, <<>>}}
    \cup {Body(PgString, Undefined, Str("oracle"))}

SeqShapes == {"rows", "command"}
SeqSizes == {0, 1, CONFIG_maxResultRows, CONFIG_maxResultRows + MaxExtraRows}
SeqErrors ==
    {ConnRefused, AuthFailed, MissingTable, BadSyntax, Denied, DriverTimeout, NetworkError}

NextQuery ==
    Step({1}, SeqQueryBodies, SeqSchemaBodies, ConnectionErrors, SeqShapes, SeqSizes,
         0 .. MaxListed, SeqErrors, MaxHandles)

SpecQuery == Init /\ [][NextQuery]_vars

\* ------------------------------------------------------------ SIGTERM
\* The SIGTERM handler from where it stands to its next await: the loop over
\* pools calls end() on the next pool; when that loop is over, the loop over
\* mongoClients calls close() on the next client; when both are over,
\* process.exit(0).
ShutdownAdvance(p, stage) ==
    LET nextPools == IF stage = "pools" THEN DOMAIN pools \ p.visitedPools ELSE {}
        nextClients == DOMAIN mongoClients \ p.visitedClients
    IN /\ IF nextPools # {}
          THEN \E cs \in nextPools :
                   /\ proc' = [p EXCEPT !.pc = "await_pool_end",
                                        !.visitedPools = @ \cup {cs},
                                        !.attempted = @ \cup {pools[cs]},
                                        !.closing = pools[cs]]
                   /\ handles' = SetState(handles, pools[cs], "ended")
          ELSE IF nextClients # {}
          THEN \E cs \in nextClients :
                   /\ proc' = [p EXCEPT !.pc = "await_client_close",
                                        !.visitedClients = @ \cup {cs},
                                        !.attempted = @ \cup {mongoClients[cs]},
                                        !.closing = mongoClients[cs]]
                   /\ handles' = SetState(handles, mongoClients[cs], "closed")
          ELSE /\ proc' = [p EXCEPT !.pc = "exited", !.closing = NoHandle]
               /\ UNCHANGED handles
       /\ UNCHANGED <<pools, mongoClients, req, served, gen, test, chat>>

\* SIGTERM arrives.
Sigterm ==
    /\ proc.pc = "running"
    /\ ShutdownAdvance([proc EXCEPT !.snapshot =
                           {pools[cs] : cs \in DOMAIN pools}
                           \cup {mongoClients[cs] : cs \in DOMAIN mongoClients}],
                       "pools")

\* The awaited pool.end() or client.close() settles; a rejection (ok = FALSE)
\* is caught and logged inside the loop, which goes on.
ShutdownResumes(ok) ==
    /\ proc.pc \in {"await_pool_end", "await_client_close"}
    /\ ShutdownAdvance([proc EXCEPT !.failed = IF ok THEN @ ELSE @ \cup {proc.closing}],
                       IF proc.pc = "await_pool_end" THEN "pools" ELSE "clients")

\* The requests of the runs that end with a shutdown: queries of a PostgreSQL
\* database and schema reads of a MongoDB one.
ShutdownBodies ==
    {Body(PgString, Sql(0, 8, 0), Undefined)}

NextShutdown ==
    \/ Step(Requests, ShutdownBodies, SchemaBodies, {ConnRefused}, Shapes, Sizes, {1},
            {ConnRefused}, MaxShutdownHandles)
    \/ Sigterm
    \/ \E ok \in BOOLEAN : ShutdownResumes(ok)

SpecShutdown == Init /\ [][NextShutdown]_vars

\* ------------------------------------------- POST /api/test-connection
ConnectTimeout == 10000

\* The catch of the handler: a fixed text by error code or message, else the
\* error's message.
TestErrorMessage(error) ==
    IF error.code = "ECONNREFUSED"
    THEN "Connection refused. Please check if the database server is running and accessible."
    ELSE IF error.code = "ENOTFOUND"
    THEN "Host not found. Please check the database hostname."
    ELSE IF "authentication" \in error.has
    THEN "Authentication failed. Please check your username and password."
    ELSE IF "SSL" \in error.has
    THEN "SSL connection error. The database may require specific SSL configuration."
    ELSE error.message

TestErrorResponse(error) ==
    [status |-> 500, success |-> FALSE, message |-> "Connection failed",
     error |-> TestErrorMessage(error)]

TestSuccessResponse(dbType) ==
    [status |-> 200, success |-> TRUE, dbType |-> dbType,
     message |-> CASE dbType = "postgres" -> "Successfully connected to PostgreSQL"
                   [] dbType = "mysql" -> "Successfully connected to MySQL"
                   [] OTHER -> "Successfully connected to MongoDB"]

TestTimeoutError(dbType) ==
    CASE dbType = "postgres" -> JsError("PostgreSQL connection timeout", {"timeout"}, NoCode)
      [] dbType = "mysql" -> JsError("MySQL connection timeout", {"timeout"}, NoCode)
      [] OTHER -> JsError("MongoDB connection timeout", {"timeout"}, NoCode)

TestRespond(t, response) == [t EXCEPT !.pc = "done", !.response = response]

TestFrame == UNCHANGED <<pools, mongoClients, handles, req, served, proc, gen, chat>>

\* POST /api/test-connection arrives: the handler opens a client of the kind
\* the connection string tells and awaits its connect, raced against a timer.
ReceiveTest(connectionString) ==
    /\ test.pc = "idle"
    /\ LET t == [NoTest EXCEPT !.connectionString = connectionString] IN
       IF connectionString = <<>>
       THEN test' = TestRespond(t, BadRequestResponse("Connection string is required"))
       ELSE LET dbType == getDatabaseType(connectionString) IN
            IF dbType \in {"postgres", "mysql", "mongodb"}
            THEN test' = [t EXCEPT !.pc = "await_connect", !.dbType = dbType,
                                   !.client = "connecting"]
            ELSE test' = TestRespond([t EXCEPT !.dbType = dbType],
                                     TestErrorResponse(JsError("Unsupported database type",
                                                               {}, NoCode)))
    /\ TestFrame

\* The connect resolves before the timer: the version query is issued.
TestConnectResolves ==
    /\ test.pc = "await_connect"
    /\ test' = [test EXCEPT !.pc = "await_version", !.client = "connected",
                            !.late = "timer"]
    /\ TestFrame

\* The connect rejects before the timer: the catch answers.
TestConnectRejects(error) ==
    /\ test.pc = "await_connect"
    /\ test' = TestRespond([test EXCEPT !.client = "failed", !.late = "timer"],
                           TestErrorResponse(error))
    /\ TestFrame

\* The timer fires before the connect settles: the catch answers; the
\* connect goes on.
TestTimeoutElapses ==
    /\ test.pc = "await_connect"
    /\ test' = TestRespond([test EXCEPT !.late = "driver"],
                           TestErrorResponse(TestTimeoutError(test.dbType)))
    /\ TestFrame

\* The loser of the race settles, with nobody awaiting it: a timer that
\* fires, or a connect that succeeds or fails after the timer.
TestLateSettles(ok) ==
    /\ test.late # "none"
    /\ test' = [test EXCEPT !.late = "none",
                            !.client = IF test.late = "driver"
                                       THEN IF ok THEN "connected" ELSE "failed"
                                       ELSE test.client]
    /\ TestFrame

\* The version query resolves: end() or close() is called and awaited.
TestVersionResolves ==
    /\ test.pc = "await_version"
    /\ test' = [test EXCEPT !.pc = "await_end", !.client = "ended"]
    /\ TestFrame

\* The version query rejects: the catch answers.
TestVersionRejects(error) ==
    /\ test.pc = "await_version"
    /\ test' = TestRespond(test, TestErrorResponse(error))
    /\ TestFrame

\* end() or close() settles: the success response, or the catch.
TestEndResolves ==
    /\ test.pc = "await_end"
    /\ test' = TestRespond(test, TestSuccessResponse(test.dbType))
    /\ TestFrame

TestEndRejects(error) ==
    /\ test.pc = "await_end"
    /\ test' = TestRespond(test, TestErrorResponse(error))
    /\ TestFrame

\* The response has been sent: the run is over.
TestRelease ==
    /\ test.pc = "done"
    /\ test.late = "none"
    /\ test' = NoTest
    /\ TestFrame

HostNotFound == JsError("getaddrinfo ENOTFOUND", {}, "ENOTFOUND")
SslError == JsError("SSL connection is required", {"SSL"}, NoCode)

TestErrors == {ConnRefused, HostNotFound, AuthFailed, SslError, NetworkError}

TestStrings == {PgString, MySqlString, MongoString, OtherString, <<>>}

NextTest ==
    \/ \E connectionString \in TestStrings : ReceiveTest(connectionString)
    \/ TestConnectResolves
    \/ \E error \in TestErrors : TestConnectRejects(error)
    \/ TestTimeoutElapses
    \/ \E ok \in BOOLEAN : TestLateSettles(ok)
    \/ TestVersionResolves
    \/ \E error \in TestErrors : TestVersionRejects(error)
    \/ TestEndResolves
    \/ \E error \in TestErrors : TestEndRejects(error)
    \/ TestRelease

SpecTest == Init /\ [][NextTest]_vars

\* ------------------------------------------------------ ChatInterface
\* The saved connections, and the database type of each.
Connections == {1, 2}
ConnectionDbType(conn) == IF conn = 1 THEN "postgres" ELSE "mongodb"

GeneratedSql(start, words) == [dbType |-> "postgres", start |-> start, words |-> words]
GeneratedMongo(operation) == [dbType |-> "mongodb", start |-> operation, words |-> {}]

QUERY_TYPES ==
    [READ |-> {"SELECT", "SHOW", "DESCRIBE", "EXPLAIN"},
     WRITE |-> {"INSERT", "UPDATE", "DELETE"},
     DDL |-> {"CREATE", "ALTER", "DROP", "TRUNCATE"},
     DANGEROUS |-> {"DROP", "TRUNCATE", "DELETE"}]

\* analyzeQuery: dangerous is a query that begins with, or contains as a
\* word, one of the DANGEROUS keywords.
analyzeQuery(query) ==
    LET isDangerous == \E keyword \in QUERY_TYPES.DANGEROUS :
                           query.start = keyword \/ keyword \in query.words
        isWrite == query.start \in QUERY_TYPES.WRITE
        isDDL == query.start \in QUERY_TYPES.DDL
        isRead == query.start \in QUERY_TYPES.READ
    IN [type |-> IF isRead THEN "read" ELSE IF isWrite THEN "write"
                 ELSE IF isDDL THEN "ddl" ELSE "unknown",
        isDangerous |-> isDangerous,
        requiresConfirmation |-> isDangerous]

\* The analysis generateSQLQuery returns with the query.
Analysis(query, dbType) ==
    IF dbType = "mongodb"
    THEN [type |-> "mongodb", isDangerous |-> FALSE, requiresConfirmation |-> FALSE]
    ELSE analyzeQuery(query)

\* A message of the chat.  conn and schema are the connection and the
\* schema its query was generated for, result the connection the result it
\* shows was executed against (0: none).
Message(id, role, sql, conn, schema) ==
    [id |-> id, role |-> role, sql |-> sql, conn |-> conn, schema |-> schema,
     executionStatus |-> "none", result |-> 0]

\* setMessages(prev => prev.map(msg => msg.id === messageId ? {...} : msg))
SetStatus(messages, messageId, status) ==
    [i \in DOMAIN messages |->
        IF messages[i].id = messageId
        THEN [messages[i] EXCEPT !.executionStatus = status] ELSE messages[i]]

SetResult(messages, messageId, conn) ==
    [i \in DOMAIN messages |->
        IF messages[i].id = messageId
        THEN [messages[i] EXCEPT !.executionStatus = "success", !.result = conn]
        ELSE messages[i]]

\* handleExecuteQuery up to its await: the message is marked running and
\* executeQuery is called with the connection of the closure (conn).
handleExecuteQuery(c, query, messageId, conn, via, run) ==
    [c EXCEPT !.messages = SetStatus(c.messages, messageId, "running"),
              !.execs = c.execs \cup {[messageId |-> messageId, conn |-> conn,
                                       via |-> via, run |-> run]},
              !.calls = Append(c.calls, [messageId |-> messageId, conn |-> conn,
                                         query |-> query, via |-> via])]

ChatFrame == UNCHANGED <<pools, mongoClients, handles, req, served, proc, gen, test>>

\* The user selects another connection: the effect loads its schema and
\* replaces the messages by the welcome message.
SelectConnection(conn) ==
    /\ chat.confirmDialog = NoDialog
    /\ conn # chat.selected
    /\ chat.switches < MaxSwitches
    /\ chat' = [chat EXCEPT !.selected = conn,
                            !.loads = chat.loads \cup {conn},
                            !.messages = <<Message(0, "system", NoQuery, conn, conn)>>,
                            !.switches = chat.switches + 1]
    /\ ChatFrame

\* getDatabaseSchema of loadSchema settles: setSchema, or the error is logged.
SchemaLoads(conn, ok) ==
    /\ conn \in chat.loads
    /\ chat' = [chat EXCEPT !.loads = chat.loads \ {conn},
                            !.schema = IF ok THEN conn ELSE chat.schema]
    /\ ChatFrame

\* handleSubmit up to its await of generateSQLQuery.
handleSubmit ==
    /\ chat.confirmDialog = NoDialog
    /\ chat.selected # 0 /\ ~chat.loading
    /\ chat.submits < MaxSubmits
    /\ chat' = [chat EXCEPT
                   !.messages = Append(chat.messages,
                                       Message(chat.nextId, "user", NoQuery, chat.selected, 0)),
                   !.loading = TRUE,
                   !.runs = chat.runs \cup {[id |-> chat.nextId, conn |-> chat.selected,
                                             schema |-> chat.schema, pc |-> "generating"]},
                   !.nextId = chat.nextId + 1,
                   !.submits = chat.submits + 1]
    /\ ChatFrame

\* generateSQLQuery resolves: the assistant message is added; a query that
\* requires confirmation opens the dialog and the run ends, any other is
\* executed and the run awaits the execution.
GenerationResolves(run, query) ==
    /\ run \in chat.runs /\ run.pc = "generating"
    /\ query.dbType = ConnectionDbType(run.conn)
    /\ LET aiMessageId == chat.nextId
           analysis == Analysis(query, ConnectionDbType(run.conn))
           c == [chat EXCEPT
                   !.messages = Append(chat.messages,
                                       Message(aiMessageId, "assistant", query,
                                               run.conn, run.schema)),
                   !.nextId = chat.nextId + 1]
       IN IF analysis.requiresConfirmation
          THEN chat' = [c EXCEPT !.confirmDialog = [messageId |-> aiMessageId,
                                                    query |-> query, conn |-> run.conn],
                                 !.runs = chat.runs \ {run},
                                 !.loading = FALSE]
          ELSE chat' = [handleExecuteQuery(c, query, aiMessageId, run.conn, "auto", run.id)
                          EXCEPT !.runs = (chat.runs \ {run})
                                           \cup {[run EXCEPT !.pc = "executing"]}]
    /\ ChatFrame

\* generateSQLQuery rejects: the catch adds an error message; finally.
GenerationRejects(run) ==
    /\ run \in chat.runs /\ run.pc = "generating"
    /\ chat' = [chat EXCEPT
                   !.messages = Append(chat.messages,
                                       Message(chat.nextId, "error", NoQuery, run.conn, 0)),
                   !.nextId = chat.nextId + 1,
                   !.runs = chat.runs \ {run},
                   !.loading = FALSE]
    /\ ChatFrame

\* executeQuery settles: the message, if it is still in the list, shows the
\* result or the error; a handleSubmit run that awaited it ends (finally).
ExecutionSettles(exec, ok) ==
    /\ exec \in chat.execs
    /\ chat' = [chat EXCEPT
                   !.messages = IF ok THEN SetResult(chat.messages, exec.messageId, exec.conn)
                                ELSE SetStatus(chat.messages, exec.messageId, "error"),
                   !.execs = chat.execs \ {exec},
                   !.runs = {run \in chat.runs : run.id # exec.run},
                   !.loading = IF exec.run # 0 THEN FALSE ELSE chat.loading]
    /\ ChatFrame

\* The user confirms in the dialog: onConfirm.
ConfirmDialog ==
    /\ chat.confirmDialog # NoDialog
    /\ chat' = [handleExecuteQuery(chat, chat.confirmDialog.query,
                                   chat.confirmDialog.messageId,
                                   chat.confirmDialog.conn, "confirm", 0)
                   EXCEPT !.confirmDialog = NoDialog]
    /\ ChatFrame

\* The user cancels the dialog: onCancel.
CancelDialog ==
    /\ chat.confirmDialog # NoDialog
    /\ chat' = [chat EXCEPT
                   !.messages = SetStatus(chat.messages, chat.confirmDialog.messageId,
                                          "cancelled"),
                   !.confirmDialog = NoDialog]
    /\ ChatFrame

\* The Execute button of a message that is neither running nor successful.
ClickExecute(i) ==
    /\ chat.confirmDialog = NoDialog
    /\ i \in DOMAIN chat.messages
    /\ chat.messages[i].role = "assistant"
    /\ chat.messages[i].executionStatus \notin {"success", "running"}
    /\ chat.clicks < MaxClicks
    /\ chat' = [handleExecuteQuery(chat, chat.messages[i].sql, chat.messages[i].id,
                                   chat.selected, "button", 0)
                   EXCEPT !.clicks = chat.clicks + 1]
    /\ ChatFrame

\* The Retry button of a message whose execution failed: handleRetryQuery.
handleRetryQuery(i) ==
    /\ chat.confirmDialog = NoDialog
    /\ i \in DOMAIN chat.messages
    /\ chat.messages[i].role = "assistant"
    /\ chat.messages[i].executionStatus = "error"
    /\ chat.clicks < MaxClicks
    /\ chat' = [handleExecuteQuery(chat, chat.messages[i].sql, chat.messages[i].id,
                                   chat.selected, "retry", 0)
                   EXCEPT !.clicks = chat.clicks + 1]
    /\ ChatFrame

\* The Explain button of a message: handleExplain up to its await.
handleExplain(i) ==
    /\ chat.confirmDialog = NoDialog
    /\ i \in DOMAIN chat.messages
    /\ chat.messages[i].role = "assistant"
    /\ chat.clicks < MaxClicks
    /\ chat' = [chat EXCEPT !.loading = TRUE, !.explains = chat.explains + 1,
                            !.clicks = chat.clicks + 1]
    /\ ChatFrame

\* explainSQLQuery settles: the explanation or an error message; finally.
ExplainSettles(ok) ==
    /\ chat.explains > 0
    /\ chat' = [chat EXCEPT
                   !.messages = Append(chat.messages,
                                       Message(chat.nextId,
                                               IF ok THEN "explanation" ELSE "error",
                                               NoQuery, chat.selected, 0)),
                   !.nextId = chat.nextId + 1,
                   !.explains = chat.explains - 1,
                   !.loading = FALSE]
    /\ ChatFrame

\* The queries the model generates.
GeneratedQueries ==
    {GeneratedSql("SELECT", {}), GeneratedSql("DELETE", {}),
     GeneratedSql("WITH", {"DELETE"}),
     GeneratedMongo("find"), GeneratedMongo("deleteMany")}

MessageSlots == 1 .. (1 + 2 * MaxSubmits + MaxClicks)

NextChat ==
    \/ \E conn \in Connections : SelectConnection(conn)
    \/ \E conn \in Connections, ok \in BOOLEAN : SchemaLoads(conn, ok)
    \/ handleSubmit
    \/ \E run \in chat.runs, query \in GeneratedQueries : GenerationResolves(run, query)
    \/ \E run \in chat.runs : GenerationRejects(run)
    \/ \E exec \in chat.execs, ok \in BOOLEAN : ExecutionSettles(exec, ok)
    \/ ConfirmDialog
    \/ CancelDialog
    \/ \E i \in MessageSlots : ClickExecute(i)
    \/ \E i \in MessageSlots : handleRetryQuery(i)
    \/ \E i \in MessageSlots : handleExplain(i)
    \/ \E ok \in BOOLEAN : ExplainSettles(ok)

SpecChat == Init /\ [][NextChat]_vars

\* ------------------------------------------------- generateSQLQuery
\* The text the model answers with: whether it is wrapped in a markdown code
\* fence, the word it begins with inside the fence ("" for an empty text),
\* its numbers of quotes and parentheses, and whether it is JSON.
GeneratedText(fence, start, singleQuotes, doubleQuotes, openParens, closeParens, json) ==
    [fence |-> fence, start |-> start, singleQuotes |-> singleQuotes,
     doubleQuotes |-> doubleQuotes, openParens |-> openParens,
     closeParens |-> closeParens, json |-> json]

EmptyText == GeneratedText(FALSE, "", 0, 0, 0, 0, FALSE)

\* sanitizeQuery: '' for a falsy text, else the text without its code fence.
sanitizeQuery(query) ==
    IF query.start = "" THEN EmptyText ELSE [query EXCEPT !.fence = FALSE]

validStarts ==
    {"SELECT", "INSERT", "UPDATE", "DELETE", "CREATE", "ALTER", "DROP", "TRUNCATE",
     "SHOW", "DESCRIBE", "EXPLAIN", "WITH"}

\* validateQuery of the AI service: validation.isValid
aiService_validateQuery(query, dbType) ==
    IF query.start = "" THEN FALSE
    ELSE IF dbType = "mongodb" THEN query.json
    ELSE /\ ~query.fence /\ query.start \in validStarts
         /\ query.singleQuotes % 2 = 0
         /\ query.doubleQuotes % 2 = 0
         /\ query.openParens = query.closeParens

DefaultMaxRetries == 2
BackoffUnit == 500

\* What generateSQLQuery throws after the loop.
FinalError(g) ==
    IF g.lastError = "API key not valid" THEN "Invalid API key"
    ELSE IF g.lastError = "Failed to fetch" THEN "Network error"
    ELSE "Failed to generate query"

LoopHead_extraAttempt(g) ==
    IF g.attempt <= g.maxRetries + 1
    THEN [g EXCEPT !.pc = "await_model", !.calls = g.calls + 1, !.delay = 0]
    ELSE [g EXCEPT !.pc = "thrown", !.delay = 0, !.thrown = FinalError(g)]

\* The head of the for loop: another attempt calls model.generateContent and
\* awaits it; when attempt has passed maxRetries the loop is left and the
\* function throws.
LoopHead(g) ==
    IF g.attempt <= g.maxRetries
    THEN [g EXCEPT !.pc = "await_model", !.calls = g.calls + 1, !.delay = 0]
    ELSE [g EXCEPT !.pc = "thrown", !.delay = 0, !.thrown = FinalError(g)]

ServerUnchanged == UNCHANGED <<pools, mongoClients, handles, req, served, proc, test, chat>>

\* generateSQLQuery is called, with or without a maxRetries option: it throws
\* when no API key is configured (genAI is null), else runs to its first await.
generateSQLQuery(maxRetries, dbType, genAI) ==
    /\ gen.pc = "idle"
    /\ LET g == [NoCall EXCEPT
                    !.genAI = genAI,
                    !.dbType = dbType,
                    !.maxRetries = IF maxRetries = Undefined
                                   THEN DefaultMaxRetries ELSE maxRetries.v]
       IN IF ~genAI
          THEN gen' = [g EXCEPT !.pc = "thrown", !.thrown = "Gemini API key not configured"]
          ELSE gen' = LoopHead(g)
    /\ ServerUnchanged

\* model.generateContent resolves with a text: the text is sanitized and
\* validated; an invalid one is retried while attempts are left, else the
\* query is returned with its validation.
ModelResolves(text) ==
    /\ gen.pc = "await_model"
    /\ LET query == sanitizeQuery(text)
           isValid == aiService_validateQuery(query, gen.dbType)
       IN IF ~isValid /\ gen.attempt < gen.maxRetries
          THEN gen' = LoopHead([gen EXCEPT !.attempt = gen.attempt + 1,
                                           !.outcomes = Append(gen.outcomes, "invalid")])
          ELSE gen' = [gen EXCEPT
                          !.pc = "returned",
                          !.outcomes = Append(gen.outcomes,
                                              IF isValid THEN "valid" ELSE "invalid"),
                          !.result = [query |-> query, isValid |-> isValid,
                                      dbType |-> gen.dbType]]
    /\ ServerUnchanged

\* model.generateContent rejects: the catch keeps the error and, while
\* attempts are left, waits 500 * (attempt + 1) ms before the next one.
ModelRejects(error) ==
    /\ gen.pc = "await_model"
    /\ LET caught == [gen EXCEPT !.lastError = error,
                                 !.outcomes = Append(gen.outcomes, "threw")]
       IN IF gen.attempt < gen.maxRetries
          THEN gen' = [caught EXCEPT !.pc = "await_backoff",
                                     !.delay = BackoffUnit * (gen.attempt + 1)]
          ELSE gen' = LoopHead([caught EXCEPT !.attempt = gen.attempt + 1])
    /\ ServerUnchanged

\* The wait before a retry is over.
BackoffElapses ==
    /\ gen.pc = "await_backoff"
    /\ gen' = LoopHead([gen EXCEPT !.attempt = gen.attempt + 1])
    /\ ServerUnchanged

\* The answers of the model and the ways its call fails.
GeneratedTexts ==
    {GeneratedText(FALSE, "SELECT", 0, 0, 0, 0, FALSE),
     GeneratedText(TRUE, "SELECT", 2, 0, 1, 1, FALSE),
     GeneratedText(FALSE, "DROP", 0, 0, 0, 0, FALSE),
     GeneratedText(FALSE, "Sure", 0, 0, 0, 0, FALSE),
     GeneratedText(FALSE, "SELECT", 1, 0, 0, 0, FALSE),
     GeneratedText(FALSE, "SELECT", 0, 0, 1, 0, FALSE),
     GeneratedText(FALSE, "{", 0, 4, 0, 0, TRUE),
     EmptyText}

ModelErrors == {"API key not valid", "Failed to fetch", "quota exceeded"}

MaxRetriesOptions == {Undefined} \cup {Num(n) : n \in 0 .. MaxRetriesOption}

ModelSettles ==
    \/ \E text \in GeneratedTexts : ModelResolves(text)
    \/ \E error \in ModelErrors : ModelRejects(error)

NextGenerate ==
    \/ \E maxRetries \in MaxRetriesOptions, dbType \in {"postgres", "mysql", "mongodb"},
          genAI \in BOOLEAN :
           generateSQLQuery(maxRetries, dbType, genAI)
    \/ ModelSettles
    \/ BackoffElapses

SpecGenerate == Init /\ [][NextGenerate]_vars

\* The call of the model settles and the timer of the wait fires.
FairSpecGenerate == SpecGenerate /\ WF_vars(ModelSettles) /\ WF_vars(BackoffElapses)

\* The sequential specification with what makes a run progress: the event
\* loop fires every armed timer; the MongoDB driver settles every call, being
\* constructed with serverSelectionTimeoutMS and socketTimeoutMS; close()
\* settles.  Nothing makes a PostgreSQL or MySQL server answer.
MongoSettles(r) ==
    /\ req[r].pc \in {"await_connect", "await_query"}
    /\ handles[req[r].client].kind = "mongo"
    /\ \/ ConnectResolves(r)
       \/ \E error \in ConnectionErrors : ConnectRejects(r, error)
       \/ \E shape \in SeqShapes, n \in SeqSizes : DriverResolves(r, shape, n)
       \/ \E n \in 0 .. MaxListed : ListResolves(r, n)
       \/ \E error \in SeqErrors : DriverRejects(r, error)

FairSpecQuery ==
    /\ SpecQuery
    /\ \A r \in Requests :
           /\ WF_vars(TimeoutElapses(r))
           /\ WF_vars(MongoSettles(r))
           /\ WF_vars(CloseSettles(r))

\* =============================================================== claims
Done(r) == req[r].pc = "done"
Events(r) == {req[r].events[i] : i \in DOMAIN req[r].events}
ConnString(r) == req[r].body.connectionString
IsQueryRun(r) == req[r].endpoint = "query"
MongoRun(r) == req[r].dbType = "mongodb"

\* The calls a run makes to a database driver.
CollectionCalls == {"collection." \o op : op \in validOperations}
DriverCalls ==
    CollectionCalls \cup {"client.connect", "client.close", "pool.query", "pool.execute",
                          "listCollections", "collection.find.sample"}
Constructors == {"new Pool", "createPool", "new MongoClient"}

\* C1: between two deletions of a connection string from a registry Map, every
\* call of that Map's getter with the string returns the same handle: the
\* getters have returned at most one handle for it since it was last deleted.
C1_SameHandleUntilEviction ==
    \A k \in DOMAIN served : Cardinality(served[k]) <= 1

\* C2: a mongodb run of POST /api/query or POST /api/schema that issued an
\* operation on its client and was answered with an error has closed that
\* client and removed it from mongoClients by the time the response is sent.
C2_FailedClientEvicted ==
    \A r \in Requests :
        (/\ Done(r) /\ MongoRun(r)
         /\ req[r].response.status = 500
         /\ Events(r) \cap (CollectionCalls \cup {"listCollections"}) # {})
        => /\ handles[req[r].client].state = "closed"
           /\ ~(MapHas(mongoClients, ConnString(r))
                /\ mongoClients[ConnString(r)] = req[r].client)

\* C3 as claimed: a run that constructed the handle for its connection string
\* and was answered with a connection failure (host unreachable, bad
\* credentials) leaves no entry for that string in the registry.
ConnectionFailure(response) ==
    /\ response.status = 500
    /\ response.error \in {e.message : e \in ConnectionErrors}

C3_NothingCachedAfterFailure ==
    \A r \in Requests :
        (Done(r) /\ Events(r) \cap Constructors # {} /\ ConnectionFailure(req[r].response))
        => /\ ~MapHas(pools, ConnString(r))
           /\ ~MapHas(mongoClients, ConnString(r))

\* C3 as amended: a MongoDB client whose connect failed (or has not resolved)
\* is never stored in mongoClients and its run is answered with an error;
\* a PostgreSQL or MySQL pool is stored when it is constructed, before any
\* connection is made, and stays the registry's entry for its string, whatever
\* becomes of the run that constructed it.
C3_FailedClientNeverCached ==
    /\ \A cs \in DOMAIN mongoClients :
           handles[mongoClients[cs]].state \in {"connected", "closed"}
    /\ \A r \in Requests :
           (Done(r) /\ req[r].client # NoHandle /\ handles[req[r].client].state = "failed")
           => req[r].response.status = 500 /\ req[r].response.success = FALSE
    /\ \A h \in DOMAIN handles :
           handles[h].kind \in {"pg", "mysql"}
           => MapHas(pools, handles[h].cs) /\ pools[handles[h].cs] = h

\* C3's case: one run was refused by an unreachable MongoDB host and left no
\* entry, another was refused on a pool it constructed, which stays cached.
C3_Witness ==
    /\ \E r \in Requests :
           /\ Done(r) /\ MongoRun(r) /\ req[r].client # NoHandle
           /\ handles[req[r].client].state = "failed"
           /\ ConnectionFailure(req[r].response)
           /\ ~MapHas(mongoClients, ConnString(r))
    /\ \E r \in Requests :
           /\ Done(r) /\ "new Pool" \in Events(r)
           /\ ConnectionFailure(req[r].response)
           /\ MapHas(pools, ConnString(r))

\* C4 as claimed: a POST /api/query whose query string is longer than 50,000
\* characters is answered with the validation error and has made no registry
\* lookup, constructed no handle and issued no driver call.
TooLongResponse(response) ==
    /\ response.status = 500 /\ response.success = FALSE
    /\ response.error = "Query is too long (max 50000 characters)"

IsString(query) == query.t = "string"

C4_LongQueryRejected ==
    \A r \in Requests :
        (/\ IsQueryRun(r) /\ ConnString(r) # <<>>
         /\ IsString(req[r].body.query)
         /\ req[r].body.query.lead + req[r].body.query.core + req[r].body.query.trail
              > MaxQueryLength)
        => Done(r) /\ TooLongResponse(req[r].response) /\ req[r].events = <<>>

\* C4 as amended: the length that is bounded is the length of the query
\* without its leading and trailing whitespace.  A POST /api/query with a
\* connection string whose trimmed query is longer than 50,000 characters is
\* answered with the validation error, and has made no registry lookup,
\* constructed no handle and issued no driver call.
C4_LongTrimmedQueryRejected ==
    \A r \in Requests :
        (/\ IsQueryRun(r) /\ ConnString(r) # <<>>
         /\ IsString(req[r].body.query)
         /\ req[r].body.query.core > MaxQueryLength)
        => /\ Done(r) /\ TooLongResponse(req[r].response)
           /\ req[r].events = <<>> /\ req[r].client = NoHandle

C4_Witness ==
    \E r \in Requests :
        /\ Done(r) /\ IsQueryRun(r) /\ MongoRun(r)
        /\ IsString(req[r].body.query)
        /\ req[r].body.query.core > MaxQueryLength
        /\ TooLongResponse(req[r].response)
        /\ pools = EmptyMap /\ mongoClients = EmptyMap

\* C5: a mongodb run of POST /api/query whose query document has no
\* collection field makes no call to the MongoDB driver, client.connect
\* included.
NoCollectionField(query) ==
    /\ IsString(query) /\ query.json # NotJSON
    /\ query.json.t = "object" /\ "collection" \notin DOMAIN query.json.v

C5_NoDriverCallWithoutCollection ==
    \A r \in Requests :
        (IsQueryRun(r) /\ MongoRun(r) /\ NoCollectionField(req[r].body.query))
        => Events(r) \cap DriverCalls = {}

\* C6 as claimed: a mongodb run issues a collection operation only if the
\* operation field of its query is absent or null (the operation is then find) or is
\* one of the ten allow-listed names, and the operation issued is the one
\* named; a run whose query names anything else issues none.
HasJsonObject(r) ==
    /\ IsQueryRun(r) /\ MongoRun(r)
    /\ IsString(req[r].body.query)
    /\ req[r].body.query.json # NotJSON
    /\ req[r].body.query.json.t = "object"

OperationField(r) == req[r].body.query.json.v.operation
HasOperationField(r) == "operation" \in DOMAIN req[r].body.query.json.v
AllowListed(x) == x.t = "string" /\ x.v \in validOperations

C6_OnlyAllowListedOperations ==
    \A r \in Requests :
        HasJsonObject(r)
        => Events(r) \cap CollectionCalls \subseteq
             (IF ~HasOperationField(r) \/ OperationField(r) = Null
              THEN {"collection.find"}
              ELSE IF AllowListed(OperationField(r))
              THEN {"collection." \o OperationField(r).v}
              ELSE {})

\* C6 as amended: the operation field also counts as absent when its value is
\* falsy (null, false, 0 or the empty string): the operation is then find.  A
\* run whose query names one of the ten allow-listed operations issues that
\* operation and no other; a run whose query names any other truthy value
\* issues no collection operation and is answered with an error.
FalsyValue(x) ==
    \/ x.t \in {"undefined", "null"}
    \/ x.t = "string" /\ x.v = ""
    \/ x.t = "number" /\ x.v = 0

C6_OnlyAllowListedOrFalsyOperations ==
    \A r \in Requests :
        HasJsonObject(r)
        => /\ Events(r) \cap CollectionCalls \subseteq
                (IF ~HasOperationField(r) \/ FalsyValue(OperationField(r))
                 THEN {"collection.find"}
                 ELSE IF AllowListed(OperationField(r))
                 THEN {"collection." \o OperationField(r).v}
                 ELSE {})
           /\ (/\ Done(r) /\ HasOperationField(r)
               /\ ~FalsyValue(OperationField(r)) /\ ~AllowListed(OperationField(r)))
              => req[r].response.status = 500 /\ req[r].response.success = FALSE

\* C6's case: a query whose operation is the empty string has run find and
\* has been answered with its rows.
C6_Witness ==
    \E r \in Requests :
        /\ Done(r) /\ HasJsonObject(r) /\ HasOperationField(r)
        /\ OperationField(r) = Str("")
        /\ "collection.find" \in Events(r)
        /\ req[r].response.status = 200

\* C7: no run of POST /api/query still waits on a driver call once the 30 s
\* of CONFIG.queryTimeout have passed since the call was issued: the timer
\* has answered it with TIMEOUT by then.
C7_NoRunWaitsPastTimeout ==
    \A r \in Requests : IsQueryRun(r) => ~req[r].overdue

\* C8: a success response of POST /api/query carries at most 1000 rows, and
\* when the driver returned an array of more than 1000 rows, exactly its
\* first 1000, in the driver's order.
Succeeded(r) == Done(r) /\ IsQueryRun(r) /\ req[r].response.status = 200

C8_RowsCapped ==
    \A r \in Requests :
        Succeeded(r)
        => /\ Len(req[r].response.rows) <= CONFIG_maxResultRows
           /\ req[r].driver.returned > CONFIG_maxResultRows
              => req[r].response.rows
                   = [i \in 1 .. CONFIG_maxResultRows |->
                        ObjOf(<<"id", "name">>, [id |-> Num(i), name |-> Str("r")])]

\* C9: when the result set of a query has more than 1000 rows, the success
\* response carries exactly 1000 rows, hasMore = true, and the true number of
\* rows as totalRows or as rowCount.
LastCall(r) == req[r].events[Len(req[r].events)]

\* The runs whose driver call returns the rows of a result set.
ReturnsResultSet(r) ==
    IF MongoRun(r) THEN LastCall(r) \in {"collection.find", "collection.aggregate"}
    ELSE req[r].driver.shape = "rows" /\ req[r].driver.returned >= 0

C9_TruncationReported ==
    \A r \in Requests :
        (Succeeded(r) /\ ReturnsResultSet(r) /\ req[r].driver.n > CONFIG_maxResultRows)
        => /\ Len(req[r].response.rows) = CONFIG_maxResultRows
           /\ "hasMore" \in DOMAIN req[r].response
           /\ req[r].response.hasMore = TRUE
           /\ \/ /\ "totalRows" \in DOMAIN req[r].response
                 /\ req[r].response.totalRows = req[r].driver.n
              \/ req[r].response.rowCount = Num(req[r].driver.n)

\* C10: the rowCount of a mongodb write result is the first of modifiedCount,
\* deletedCount and insertedCount that is not zero, else 1 if the result
\* carries an inserted identifier, else 0.
WriteCalls ==
    {"collection." \o op : op \in {"insertOne", "insertMany", "updateOne", "updateMany",
                                   "deleteOne", "deleteMany"}}

Count(result, field) ==
    IF field \in DOMAIN result.v /\ result.v[field].t = "number"
    THEN result.v[field].v ELSE 0

C10_WriteRowCountPriority ==
    \A r \in Requests :
        (Succeeded(r) /\ MongoRun(r) /\ LastCall(r) \in WriteCalls)
        => LET result == req[r].response.rows[1] IN
           req[r].response.rowCount =
             Num(IF Count(result, "modifiedCount") # 0 THEN Count(result, "modifiedCount")
                 ELSE IF Count(result, "deletedCount") # 0 THEN Count(result, "deletedCount")
                 ELSE IF Count(result, "insertedCount") # 0 THEN Count(result, "insertedCount")
                 ELSE IF "insertedId" \in DOMAIN result.v THEN 1
                 ELSE 0)

\* C11: the columns of a postgres or mysql success response are the names in
\* the field metadata of the driver's result when the result carries it, and
\* otherwise the keys of the first row of the response; the columns of a
\* mongodb success response are always the keys of its first row.
DriverResult(r) ==
    PoolResult(handles[req[r].client].kind, req[r].driver.shape, req[r].driver.n)

\* The field metadata in what the driver resolved with: result.fields of a
\* pg Result, the second element of mysql2's [rows, fields].
DriverFields(r) ==
    IF handles[req[r].client].kind = "pg"
    THEN Get(DriverResult(r), "fields") ELSE At(DriverResult(r), 1)

FirstRowKeys(rows) == IF Len(rows) > 0 THEN ObjectKeys(rows[1]) ELSE <<>>

C11_ColumnsPolicy ==
    \A r \in Requests :
        Succeeded(r)
        => req[r].response.columns =
             (IF ~MongoRun(r) /\ IsArray(DriverFields(r))
              THEN FieldNames(DriverFields(r))
              ELSE FirstRowKeys(req[r].response.rows))

\* C12 as claimed: a query whose result set is empty is answered with
\* success, rows = [], columns = [] and rowCount = 0, for every backend.
EmptyResultSet(r) ==
    /\ Done(r) /\ IsQueryRun(r)
    /\ req[r].driver.shape # "none" /\ req[r].driver.n = 0
    /\ IF MongoRun(r)
       THEN LastCall(r) \in {"collection.find", "collection.findOne", "collection.aggregate"}
       ELSE req[r].driver.shape = "rows"

QueryCalls == CollectionCalls \cup {"pool.query", "pool.execute"}

Occurrences(events, calls) == Cardinality({i \in DOMAIN events : events[i] \in calls})

C13_AtMostOneDriverQuery ==
    \A r \in Requests :
        IsQueryRun(r) => Occurrences(req[r].events, QueryCalls) <= 1

\* C13's case: a run whose query timed out has been answered with TIMEOUT
\* and has issued the query once.
C13_Witness ==
    \E r \in Requests :
        /\ Done(r) /\ IsQueryRun(r)
        /\ req[r].response.status = 500 /\ req[r].response.errorCode = "TIMEOUT"
        /\ req[r].late = "driver"
        /\ Occurrences(req[r].events, QueryCalls) = 1

\* C14: a run of POST /api/query on a body with a connection string and a
\* query sends one response, which is a success, a TIMEOUT error or another
\* error; once sent, nothing changes it and nothing is sent after it, the
\* late loser of the timeout race included; and every such run gets there.
CarriesBoth(r) ==
    IsQueryRun(r) /\ ConnString(r) # <<>> /\ ~Falsy(req[r].body.query)

Completed(r) == req[r].response.status = 200 /\ req[r].response.success = TRUE
TimedOut(r) == req[r].response.status = 500 /\ req[r].response.errorCode = "TIMEOUT"
Failed(r) == req[r].response.status = 500 /\ req[r].response.errorCode # "TIMEOUT"

OneTerminalState(r) ==
    /\ req[r].sent <= 1
    /\ Done(r) <=> req[r].sent = 1
    /\ Done(r) => /\ Completed(r) \/ TimedOut(r) \/ Failed(r)
                  /\ ~(Completed(r) /\ (TimedOut(r) \/ Failed(r)))
                  /\ ~(TimedOut(r) /\ Failed(r))

OutcomeKept(r) ==
    Done(r) => \/ req'[r] = IdleRequest
               \/ /\ req'[r].pc = "done"
                  /\ req'[r].response = req[r].response
                  /\ req'[r].sent = req[r].sent

C14_OneTerminalStateOneResponse ==
    /\ [](\A r \in Requests : CarriesBoth(r) => OneTerminalState(r))
    /\ [][\A r \in Requests : CarriesBoth(r) => OutcomeKept(r)]_vars
    /\ \A r \in Requests : CarriesBoth(r) ~> Done(r)

\* C14's case: a run answered with TIMEOUT whose driver call has settled
\* afterwards, the one response unchanged.
C14_Witness ==
    \E r \in Requests :
        /\ Done(r) /\ CarriesBoth(r) /\ TimedOut(r)
        /\ "pool.query" \in Events(r)
        /\ req[r].late = "none" /\ req[r].sent = 1

\* C15: every error response of POST /api/query and POST /api/schema, the
\* answer to a body without a required field included, carries
\* success = false, a message and an error code.
IsErrorResponse(response) == response.status >= 400

C15_ErrorEnvelope ==
    \A r \in Requests :
        (Done(r) /\ IsErrorResponse(req[r].response))
        => /\ "success" \in DOMAIN req[r].response
           /\ req[r].response.success = FALSE
           /\ "error" \in DOMAIN req[r].response
           /\ "errorCode" \in DOMAIN req[r].response

\* C16: outside the development mode, two failing runs of POST /api/query on
\* the same body that took the same path and failed in the same error class
\* are answered with the same response, whatever the driver's message was.
SameFailure(r1, r2) ==
    /\ Done(r1) /\ Done(r2) /\ IsQueryRun(r1) /\ IsQueryRun(r2)
    /\ req[r1].body = req[r2].body /\ req[r1].events = req[r2].events
    /\ req[r1].response.status = 500 /\ req[r2].response.status = 500
    /\ req[r1].response.errorCode = req[r2].response.errorCode

C16_ErrorResponseHidesDriverText ==
    NODE_ENV # "development"
    => \A r1, r2 \in Requests :
           SameFailure(r1, r2) => req[r1].response = req[r2].response

\* C17: a mongodb run of POST /api/schema whose listCollections resolved is
\* answered with success and one field list per listed collection, up to 50:
\* [] for a collection whose sample failed or found no document, the fields
\* of its documents for every other one.
ListedRun(r) ==
    /\ Done(r) /\ req[r].endpoint = "schema" /\ MongoRun(r)
    /\ req[r].driver.shape = "list"

C17_SampleFailureIsolated ==
    \A r \in Requests :
        ListedRun(r)
        => /\ req[r].response.status = 200 /\ req[r].response.success = TRUE
           /\ Len(req[r].sampled) = Min(req[r].driver.n, MaxCollections)
           /\ Len(req[r].response.tables) = Len(req[r].sampled)
           /\ \A i \in DOMAIN req[r].sampled :
                  req[r].response.tables[i] =
                    (IF req[r].sampled[i] = SampleFailed \/ req[r].sampled[i] = 0
                     THEN <<>> ELSE <<"id", "name">>)

\* C17's case: of two listed collections the sample of the first failed and
\* the second holds documents; the answer is [] and the fields of the second.
C17_Witness ==
    \E r \in Requests :
        /\ ListedRun(r)
        /\ Len(req[r].sampled) = 2
        /\ req[r].sampled[1] = SampleFailed /\ req[r].sampled[2] > 0
        /\ req[r].response.status = 200
        /\ req[r].response.tables = << <<>>, <<"id", "name">> >>

\* C18: when the process exits after SIGTERM, a close has been attempted on
\* every pool and client the registry held when the signal arrived: the
\* handler has called end() or close() on it, or the handle has been closed
\* by the run that evicted it.
C18_EveryCachedHandleClosed ==
    proc.pc = "exited"
    => \A h \in proc.snapshot :
           h \in proc.attempted \/ handles[h].state = "closed"

\* C19: by default only reads are executed: a POST /api/query whose statement
\* is not a read (an SQL statement other than SELECT, a mongodb write
\* operation) is never passed to a database driver.
C19_OnlyReadsReachDriver ==
    \A r \in Requests :
        IsQueryRun(r)
        => /\ req[r].call \in {"pool.query", "pool.execute"} => req[r].arg.stmt = "SELECT"
           /\ Occurrences(req[r].events, WriteCalls) = 0

\* C20: generateSQLQuery calls the model at most maxRetries + 1 times, starts
\* a further attempt only after an attempt threw or produced a query that
\* failed validation, and always terminates: it returns a result, or throws
\* once the attempts are used up.
Terminated == gen.pc \in {"returned", "thrown"}

FurtherAttempt == gen'.calls = gen.calls + 1 /\ gen.calls > 0

AttemptsUsedUp ==
    /\ gen.calls = gen.maxRetries + 1
    /\ gen.outcomes[Len(gen.outcomes)] = "threw"

AtMostMaxRetriesPlusOne == gen.calls <= gen.maxRetries + 1

RetryOnlyAfterFailure ==
    FurtherAttempt
    => /\ Len(gen'.outcomes) = gen.calls
       /\ gen'.outcomes[gen.calls] \in {"threw", "invalid"}

C21_TimeoutCodeIffTimerFired ==
    \A r \in Requests :
        Done(r) /\ IsQueryRun(r) /\ req[r].response.status = 500
        => (req[r].response.errorCode = "TIMEOUT" <=> req[r].fired)

\* C23: the pool a postgres run executes its query on was created by the
\* PostgreSQL driver and the pool a mysql run executes on by the MySQL
\* driver, whatever requests came before.
C23_PoolOfOwnFamily ==
    \A r \in Requests :
        (req[r].endpoint \in {"query", "schema"} /\ req[r].client # NoHandle)
        => /\ req[r].dbType = "postgres" => handles[req[r].client].kind = "pg"
           /\ req[r].dbType = "mysql" => handles[req[r].client].kind = "mysql"

\* C24: whatever the interleaving of concurrent runs for one MongoDB
\* connection string that is not cached, one client is constructed and
\* connected for it, and no connected client is outside the registry.
LiveClients(cs) ==
    {h \in DOMAIN handles :
        /\ handles[h].kind = "mongo" /\ handles[h].cs = cs
        /\ handles[h].state \in {"connecting", "connected"}}

C24_OneClientPerString ==
    \A cs \in {handles[h].cs : h \in DOMAIN handles} :
        /\ Cardinality(LiveClients(cs)) <= 1
        /\ \A h \in LiveClients(cs) :
               handles[h].state = "connected"
               => MapHas(mongoClients, cs) /\ mongoClients[cs] = h

\* C25: closeMongoClient removes from the registry only the client it has
\* closed: every client whose entry is deleted from mongoClients has had
\* close() called on it.
C25_DeletedClientWasClosed ==
    [][\A cs \in DOMAIN mongoClients :
          ~MapHas(mongoClients', cs) => handles[mongoClients[cs]].state = "closed"]_vars

\* C26: a cached MongoDB client is never closed while another run that got
\* it from the registry still has an operation in flight on it.
InFlightOn(rq, h) == rq.pc = "await_query" /\ rq.dbType = "mongodb" /\ rq.client = h

C26_NoCloseUnderOperation ==
    [][\A h \in DOMAIN handles :
          (handles[h].state = "connected" /\ handles'[h].state = "closed")
          => ~\E r \in Requests : InFlightOn(req[r], h) /\ InFlightOn(req'[r], h)]_vars

\* C27: a mongodb POST /api/query rejected by validation (invalid JSON, no
\* collection, unsupported operation, missing payload) leaves the registry
\* as it was: the healthy client cached for its connection string is neither
\* closed nor evicted.
ValidationMessages ==
    {"Invalid MongoDB query format: Expected valid JSON",
     "MongoDB query must specify a collection",
     "Invalid MongoDB operation"}

FailsValidation(query) ==
    LET validated == validateQuery(query) IN
    /\ validated.ok
    /\ LET parsed == parseMongoQuery(validated.value) IN
       IF parsed.ok
       THEN ~PayloadCheck(MongoOperation(parsed.value), parsed.value).ok
       ELSE parsed.error.message \in ValidationMessages

\* The run found a client cached and its query failed validation.
RejectedByValidation(r) ==
    /\ Done(r) /\ IsQueryRun(r) /\ MongoRun(r)
    /\ req[r].response.status = 500
    /\ FailsValidation(req[r].body.query)
    /\ "client.connect" \notin Events(r)
    /\ req[r].client # NoHandle

C27_ValidationLeavesRegistry ==
    \A r \in Requests :
        RejectedByValidation(r)
        => /\ handles[req[r].client].state = "connected"
           /\ MapHas(mongoClients, ConnString(r))
           /\ mongoClients[ConnString(r)] = req[r].client

\* C28: every client or connection POST /api/test-connection opens is closed
\* by the time its response is sent, on the success path and on every
\* failure path, and the run leaves the registry as it is.
C28_TestConnectionClosesClient ==
    /\ test.pc = "done" => test.client \in {"none", "failed", "ended"}
    /\ pools = EmptyMap /\ mongoClients = EmptyMap

\* C22: handleSubmit executes by itself only safe queries: a generated query
\* that deletes, drops or truncates is sent to executeQuery only by the
\* confirmation dialog, and a cancelled message has no call from the run.
Destructive(query) ==
    IF query.dbType = "mongodb" THEN query.start \in {"deleteOne", "deleteMany"}
    ELSE \E keyword \in {"DELETE", "DROP", "TRUNCATE"} :
             query.start = keyword \/ keyword \in query.words

C22_DestructiveOnlyAfterConfirm ==
    /\ \A k \in DOMAIN chat.calls :
           chat.calls[k].via = "auto" => ~Destructive(chat.calls[k].query)
    /\ \A i \in DOMAIN chat.messages :
           chat.messages[i].executionStatus = "cancelled"
           => \A k \in DOMAIN chat.calls :
                  chat.calls[k].messageId = chat.messages[i].id
                  => chat.calls[k].via \notin {"auto", "confirm"}

\* C29: at most one handleSubmit run is in flight at any time.
C29_OneSubmitInFlight == Cardinality(chat.runs) <= 1

\* C30: every assistant message and query result in the chat of the selected
\* connection was generated for that connection, with that connection's
\* schema if with any, and executed against that connection.
C30_ChatOfSelectedConnection ==
    \A i \in DOMAIN chat.messages :
        chat.messages[i].role = "assistant"
        => /\ chat.messages[i].conn = chat.selected
           /\ chat.messages[i].schema \in {0, chat.selected}
           /\ chat.messages[i].result \in {0, chat.selected}

====
